---- MODULE Spec2Model ----
(***************************************************************************)
(* Model of OcSupportPkg's CPU frequency detection                         *)
(* (Library/OcCpuLib/FrequencyDetect.c): the PM timer locator, the         *)
(* PM-timer based TSC calibrator, the crystal clock (ART) resolver and     *)
(* OcGetTSCFrequency.                                                      *)
(*                                                                         *)
(* UINT32 and UINT64 values are little-endian sequences of base-256 limbs  *)
(* (4 and 8 limbs), so that every operation keeps the width it has in C.   *)
(***************************************************************************)
EXTENDS Integers, Sequences, FiniteSets, TLC

(***************************************************************************)
(* Fixed-width unsigned arithmetic.                                        *)
(***************************************************************************)
Base == 2 ^ 8

RECURSIVE ToLimbs(_, _)
ToLimbs(n, k) ==
  IF k = 0 THEN <<>> ELSE <<n % Base>> \o ToLimbs(n \div Base, k - 1)

U32(n) == ToLimbs(n, 4)

U64(n) == ToLimbs(n, 8)

\* Zero-extension or truncation of a to k limbs (a C integer conversion).
Ext(a, k) == [i \in 1..k |-> IF i <= Len(a) THEN a[i] ELSE 0]

IsZero(a) == \A i \in 1..Len(a) : a[i] = 0

RECURSIVE LessAt(_, _, _)
LessAt(a, b, i) ==
  IF i = 0 THEN FALSE
  ELSE IF a[i] # b[i] THEN a[i] < b[i]
  ELSE LessAt(a, b, i - 1)

MaxLen(a, b) == IF Len(a) >= Len(b) THEN Len(a) ELSE Len(b)

Less(a, b) == LessAt(Ext(a, MaxLen(a, b)), Ext(b, MaxLen(a, b)), MaxLen(a, b))

LessEq(a, b) == ~Less(b, a)

RECURSIVE AddC(_, _, _, _, _)
AddC(a, b, i, k, c) ==
  IF i > k THEN <<>>
  ELSE LET s == a[i] + b[i] + c
       IN  <<s % Base>> \o AddC(a, b, i + 1, k, s \div Base)

\* (a + b) mod 2^(8k)
Add(a, b, k) == AddC(Ext(a, k), Ext(b, k), 1, k, 0)

RECURSIVE SubB(_, _, _, _, _)
SubB(a, b, i, k, br) ==
  IF i > k THEN <<>>
  ELSE LET d == a[i] - b[i] - br
       IN  <<(d + Base) % Base>> \o SubB(a, b, i + 1, k, IF d < 0 THEN 1 ELSE 0)

\* (a - b) mod 2^(8k)
Sub(a, b, k) == SubB(Ext(a, k), Ext(b, k), 1, k, 0)

RECURSIVE MulLimbC(_, _, _, _, _)
MulLimbC(a, m, i, k, c) ==
  IF i > k THEN <<>>
  ELSE LET p == a[i] * m + c
       IN  <<p % Base>> \o MulLimbC(a, m, i + 1, k, p \div Base)

\* (a * m) mod 2^(8k) for a single limb m
MulLimb(a, m, k) == MulLimbC(Ext(a, k), m, 1, k, 0)

\* (a * 256^j) mod 2^(8k)
ShiftLimbs(a, j, k) == [i \in 1..k |-> IF i > j /\ i - j <= Len(a) THEN a[i - j] ELSE 0]

RECURSIVE MulFrom(_, _, _, _)
MulFrom(a, b, j, k) ==
  IF j > Len(b) THEN Ext(<<>>, k)
  ELSE IF b[j] = 0 THEN MulFrom(a, b, j + 1, k)
  ELSE Add(ShiftLimbs(MulLimb(a, b[j], k), j - 1, k), MulFrom(a, b, j + 1, k), k)

\* (a * b) mod 2^(8k)
Mul(a, b, k) == MulFrom(a, b, 1, k)

\* The largest q in lo..hi with q * d <= cur (cur < 256 * d).
RECURSIVE QuotDigit(_, _, _, _)
QuotDigit(cur, d, lo, hi) ==
  IF lo = hi THEN lo
  ELSE LET mid == (lo + hi + 1) \div 2
       IN  IF LessEq(MulLimb(d, mid, Len(cur)), cur)
           THEN QuotDigit(cur, d, mid, hi)
           ELSE QuotDigit(cur, d, lo, mid - 1)

\* Long division, most significant limb first; rem has Len(d) limbs.  (The
\* test of q, always true, makes the digit known before the next step.)
RECURSIVE DivRec(_, _, _, _)
DivRec(a, d, i, rem) ==
  IF i = 0 THEN <<>>
  ELSE LET cur == <<a[i]>> \o rem
           q   == QuotDigit(cur, d, 0, Base - 1)
           r   == Ext(Sub(cur, MulLimb(d, q, Len(cur)), Len(cur)), Len(d))
       IN  IF q < Base THEN DivRec(a, d, i - 1, r) \o <<q>> ELSE <<>>

\* Long division by a divisor below 2^22, whose partial remainders fit the
\* integers of the model checker.
RECURSIVE DivSmallRec(_, _, _, _)
DivSmallRec(a, d, i, rem) ==
  IF i = 0 THEN <<>>
  ELSE LET cur == rem * Base + a[i]
       IN  IF cur >= 0 THEN DivSmallRec(a, d, i - 1, cur % d) \o <<cur \div d>> ELSE <<>>

IsSmall(d) == \A i \in 3..Len(d) : d[i] = 0 \/ (i = 3 /\ d[i] < 64)

SmallValue(d) ==
  d[1] + (IF Len(d) >= 2 THEN Base * d[2] ELSE 0)
       + (IF Len(d) >= 3 THEN Base * Base * d[3] ELSE 0)

\* floor(a / d), as many limbs as a; d # 0
Div(a, d) ==
  IF IsSmall(d) THEN DivSmallRec(a, SmallValue(d), Len(a), 0)
  ELSE DivRec(a, d, Len(a), Ext(<<>>, Len(d)))


(***************************************************************************)
(* Platform primitives and header constants.                               *)
(***************************************************************************)
\* UINT64 MultU64x32 (UINT64 Multiplicand, UINT32 Multiplier): the product
\* is a UINT64, its bits above bit 63 are lost.
MultU64x32(Multiplicand, Multiplier) == Mul(Ext(Multiplicand, 8), Multiplier, 8)

\* UINT64 DivU64x32 (UINT64 Dividend, UINT32 Divisor): the truncated quotient.
DivU64x32(Dividend, Divisor) == Div(Ext(Dividend, 8), Ext(Divisor, 4))

\* OcMiscLib: Multiplicand * Multiplier / Divisor over a 128-bit
\* intermediate product, the quotient returned as a UINT64.
MultThenDivU64x64x32(Multiplicand, Multiplier, Divisor) ==
  Ext(Div(Mul(Ext(Multiplicand, 16), Ext(Multiplier, 8), 16), Ext(Divisor, 4)), 8)

V_ICH_PCI_VENDOR_ID == 32902          \* 0x8086

B_ICH_LPC_ACPI_CNTL_ACPI_EN == 128    \* BIT7

B_ICH_PMC_ACPI_CNTL_ACPI_EN == 128    \* BIT7

B_ICH_PMC_BAR2_BASE_BAR_EN == 1       \* BIT0

R_ACPI_PM1_TMR == 8

V_ACPI_TMR_FREQUENCY == 3579545

CPUID_VENDOR_INTEL == 1970169159      \* 0x756E6547

CPUID_VENDOR_AMD == 1752462657        \* 0x68747541

CPUID_TIME_STAMP_COUNTER == 21        \* 0x15

CPUID_PROCESSOR_FREQUENCY == 22       \* 0x16

CPU_MODEL_SKYLAKE == 78               \* 0x4E

CPU_MODEL_SKYLAKE_DT == 94            \* 0x5E

CPU_MODEL_KABYLAKE == 142             \* 0x8E

CPU_MODEL_KABYLAKE_DT == 158          \* 0x9E

CPU_MODEL_DENVERTON == 95             \* 0x5F

CPU_MODEL_GOLDMONT == 92              \* 0x5C

CLIENT_ART_CLOCK_SOURCE == 24000000

SERVER_ART_CLOCK_SOURCE == 25000000

ATOM_ART_CLOCK_SOURCE == 19200000

DEFAULT_ART_CLOCK_SOURCE == 24000000

TPL_APPLICATION == 4

TPL_CALLBACK == 8

TPL_HIGH_LEVEL == 31

\* Value & Bit # 0 for a single-bit mask Bit
BitSet(Value, Bit) == (Value \div Bit) % 2 = 1

\* Value & B_ICH_LPC_ACPI_BASE_BAR (0xFF80)
LpcAcpiBaseBar(Value) == Value - (Value % 128)

\* Value & B_ICH_PMC_ACPI_BASE_BAR (0xFFFC)
PmcAcpiBaseBar(Value) == Value - (Value % 4)

\* Value & B_ICH_PMC_BAR2_BASE_BAR (0xFFC0)
PmcBar2BaseBar(Value) == Value - (Value % 64)


(***************************************************************************)
(* Bounds of the model and the inputs it draws.                            *)
(***************************************************************************)
\* Calls made from within the DEBUG statements of one resolver call.
MaxNestedCalls == 1

\* Loop reads of one calibration that may advance the timer by less than
\* the calibration window.
MaxSmallReads == 1

\* The timer advance that covers the whole calibration window at once.
WindowStep == V_ACPI_TMR_FREQUENCY \div 10

\* Ticks the PM timer advances between two reads of the calibration loop.
TimerSteps == {32, 400, WindowStep}

\* Ticks the PM timer advances during the 500 microsecond stall (0: the
\* timer of a virtual machine that does not advance).
SanitySteps == {0, 32}

\* Ticks the PM timer advances between the sanity check and the start read.
StartSteps == {32}

\* Values of the PM timer register at the first read of a calibration.
TimerStarts(Width) ==
  IF Width = 24 THEN {U32(36), <<\hB0, \hFF, \hFF, 0>>}
                ELSE {U32(36), <<\hB0, \hFF, \hFF, \hFF>>}

\* Task priority levels the boot environment calls the functions at.
CallerTpls == {TPL_APPLICATION, TPL_CALLBACK}

\* Values of the time-stamp counter at the start read.
TscStarts == {U64(1000)}

\* Counter ticks between the start read and the end read: 3,000,000,000
\* and 6,000,000,000,000.
TscDeltas == {<<0, \h5E, \hD0, \hB2, 0, 0, 0, 0>>, <<0, \h60, \hDE, \hFB, \h74, \h05, 0, 0>>}

(***************************************************************************)
(* Hardware configurations: what the PCI configuration space, the AMD ACPI *)
(* MMIO window and CPUID report.  They do not change during a boot.        *)
(***************************************************************************)
HwDefault ==
  [LpcVendorId |-> 65535, LpcAcpiCntl |-> 0, LpcAcpiBase |-> 6147,
   PmcVendorId |-> 65535, PmcAcpiCntl |-> 0, PmcAcpiBase |-> 1027,
   PmcBar2Base |-> 0, CpuVendor |-> 0, AmdPmTmrBlock |-> 0, TimerWidth |-> 24,
   MaxId |-> 13, Denominator |-> 0, Numerator |-> 0, ARTFrequencyEcx |-> 0,
   Model |-> 12, ExtendedModelId |-> 3, ProcessorBaseFrequency |-> 0]

HwAll ==
  [LpcVendorId : {V_ICH_PCI_VENDOR_ID, 65535}, LpcAcpiCntl : {0, 128},
   LpcAcpiBase : {6147},
   PmcVendorId : {V_ICH_PCI_VENDOR_ID, 65535}, PmcAcpiCntl : {0, 128},
   PmcAcpiBase : {1027}, PmcBar2Base : {0, 1281},
   CpuVendor : {CPUID_VENDOR_INTEL, CPUID_VENDOR_AMD, 0},
   AmdPmTmrBlock : {0, 2056}, TimerWidth : {24, 32},
   MaxId : {13, CPUID_TIME_STAMP_COUNTER, CPUID_PROCESSOR_FREQUENCY},
   Denominator : {0, 2}, Numerator : {0, 1, 250},
   ARTFrequencyEcx : {0, 1, 38400000},
   Model : {12, 14, 15}, ExtendedModelId : {3, 4, 5, 9},
   ProcessorBaseFrequency : {0, 2900}]

(***************************************************************************)
(* InternalGetPmTimerAddr: the timer address and the source tag, as a      *)
(* function of the hardware.                                               *)
(***************************************************************************)
\* Mutant of IntelPmTimer: the power-management-controller function is
\* probed before the legacy function.
IntelPmTimerPmcFirst(h) ==
  IF h.LpcVendorId = V_ICH_PCI_VENDOR_ID
  THEN IF h.PmcVendorId = V_ICH_PCI_VENDOR_ID
            /\ BitSet(h.PmcAcpiCntl, B_ICH_PMC_ACPI_CNTL_ACPI_EN)
       THEN [TimerAddr |-> PmcAcpiBaseBar(h.PmcAcpiBase) + R_ACPI_PM1_TMR,
             Type |-> "PMC ACPI"]
       ELSE IF BitSet(h.LpcAcpiCntl, B_ICH_LPC_ACPI_CNTL_ACPI_EN)
       THEN [TimerAddr |-> LpcAcpiBaseBar(h.LpcAcpiBase) + R_ACPI_PM1_TMR, Type |-> "LPC"]
       ELSE IF h.PmcVendorId # V_ICH_PCI_VENDOR_ID
       THEN [TimerAddr |-> 0, Type |-> "Unknown INTEL"]
       ELSE IF BitSet(h.PmcBar2Base, B_ICH_PMC_BAR2_BASE_BAR_EN)
       THEN [TimerAddr |-> PmcBar2BaseBar(h.PmcBar2Base) + R_ACPI_PM1_TMR,
             Type |-> "PMC BAR2"]
       ELSE [TimerAddr |-> 0, Type |-> "Invalid INTEL PMC"]
  ELSE [TimerAddr |-> 0, Type |-> "Failure"]

\* Mutant of IntelPmTimer: a probe that finds no timer leaves the tag as
\* line 43 has set it.
IntelPmTimerTagKept(h) ==
  IF h.LpcVendorId = V_ICH_PCI_VENDOR_ID
  THEN IF BitSet(h.LpcAcpiCntl, B_ICH_LPC_ACPI_CNTL_ACPI_EN)
       THEN [TimerAddr |-> LpcAcpiBaseBar(h.LpcAcpiBase) + R_ACPI_PM1_TMR, Type |-> "LPC"]
       ELSE IF h.PmcVendorId = V_ICH_PCI_VENDOR_ID
       THEN IF BitSet(h.PmcAcpiCntl, B_ICH_PMC_ACPI_CNTL_ACPI_EN)
            THEN [TimerAddr |-> PmcAcpiBaseBar(h.PmcAcpiBase) + R_ACPI_PM1_TMR,
                  Type |-> "PMC ACPI"]
            ELSE IF BitSet(h.PmcBar2Base, B_ICH_PMC_BAR2_BASE_BAR_EN)
            THEN [TimerAddr |-> PmcBar2BaseBar(h.PmcBar2Base) + R_ACPI_PM1_TMR,
                  Type |-> "PMC BAR2"]
            ELSE [TimerAddr |-> 0, Type |-> "Failure"]
       ELSE [TimerAddr |-> 0, Type |-> "Failure"]
  ELSE [TimerAddr |-> 0, Type |-> "Failure"]

\* Lines 54-92: the Intel probe.
IntelPmTimer(h) ==
  IF h.LpcVendorId = V_ICH_PCI_VENDOR_ID
  THEN IF BitSet(h.LpcAcpiCntl, B_ICH_LPC_ACPI_CNTL_ACPI_EN)
       THEN [TimerAddr |-> LpcAcpiBaseBar(h.LpcAcpiBase) + R_ACPI_PM1_TMR, Type |-> "LPC"]
       ELSE IF h.PmcVendorId = V_ICH_PCI_VENDOR_ID
       THEN IF BitSet(h.PmcAcpiCntl, B_ICH_PMC_ACPI_CNTL_ACPI_EN)
            THEN [TimerAddr |-> PmcAcpiBaseBar(h.PmcAcpiBase) + R_ACPI_PM1_TMR,
                  Type |-> "PMC ACPI"]
            ELSE IF BitSet(h.PmcBar2Base, B_ICH_PMC_BAR2_BASE_BAR_EN)
            THEN [TimerAddr |-> PmcBar2BaseBar(h.PmcBar2Base) + R_ACPI_PM1_TMR,
                  Type |-> "PMC BAR2"]
            ELSE [TimerAddr |-> 0, Type |-> "Invalid INTEL PMC"]
       ELSE [TimerAddr |-> 0, Type |-> "Unknown INTEL"]
  ELSE [TimerAddr |-> 0, Type |-> "Failure"]

\* Lines 40-114.
InternalGetPmTimerAddr(h) ==
  LET Intel == IntelPmTimer(h)
  IN  IF Intel.TimerAddr = 0 /\ h.CpuVendor = CPUID_VENDOR_AMD
      THEN [TimerAddr |-> h.AmdPmTmrBlock, Type |-> "AMD"]
      ELSE Intel


\* Lines 54-106: the registers the locator reads, in the order of the code.
LocatorReads(h) ==
  LET Lpc == h.LpcVendorId = V_ICH_PCI_VENDOR_ID
      LpcEn == BitSet(h.LpcAcpiCntl, B_ICH_LPC_ACPI_CNTL_ACPI_EN)
      Pmc == h.PmcVendorId = V_ICH_PCI_VENDOR_ID
      PmcEn == BitSet(h.PmcAcpiCntl, B_ICH_PMC_ACPI_CNTL_ACPI_EN)
  IN  {"LpcVendorId"}
        \cup (IF Lpc THEN {"LpcAcpiCntl"} ELSE {})
        \cup (IF Lpc /\ LpcEn THEN {"LpcAcpiBase"} ELSE {})
        \cup (IF Lpc /\ ~LpcEn THEN {"PmcVendorId"} ELSE {})
        \cup (IF Lpc /\ ~LpcEn /\ Pmc THEN {"PmcAcpiCntl"} ELSE {})
        \cup (IF Lpc /\ ~LpcEn /\ Pmc /\ PmcEn THEN {"PmcAcpiBase"} ELSE {})
        \cup (IF Lpc /\ ~LpcEn /\ Pmc /\ ~PmcEn THEN {"PmcBar2Base"} ELSE {})
        \cup (IF IntelPmTimer(h).TimerAddr = 0 THEN {"CpuVendor"} ELSE {})
        \cup (IF IntelPmTimer(h).TimerAddr = 0 /\ h.CpuVendor = CPUID_VENDOR_AMD
              THEN {"AmdPmTmrBlock"} ELSE {})

\* Line 283: Model = (UINT8) Bits.Model | (UINT8) (Bits.ExtendedModelId << 4U)
CpuModel(h) == h.Model + 16 * h.ExtendedModelId

\* Mutant of KnownModelART: Denverton shares the case of the client parts.
KnownModelARTDenvertonAsClient(Model, Current) ==
  IF Model \in {CPU_MODEL_SKYLAKE, CPU_MODEL_SKYLAKE_DT, CPU_MODEL_KABYLAKE,
                CPU_MODEL_KABYLAKE_DT, CPU_MODEL_DENVERTON}
  THEN U64(CLIENT_ART_CLOCK_SOURCE)
  ELSE IF Model = CPU_MODEL_GOLDMONT THEN U64(ATOM_ART_CLOCK_SOURCE)
  ELSE Current

\* Lines 287-300: the switch over known models; no case leaves the value as is.
KnownModelART(Model, Current) ==
  IF Model \in {CPU_MODEL_SKYLAKE, CPU_MODEL_SKYLAKE_DT, CPU_MODEL_KABYLAKE,
                CPU_MODEL_KABYLAKE_DT}
  THEN U64(CLIENT_ART_CLOCK_SOURCE)
  ELSE IF Model = CPU_MODEL_DENVERTON THEN U64(SERVER_ART_CLOCK_SOURCE)
  ELSE IF Model = CPU_MODEL_GOLDMONT THEN U64(ATOM_ART_CLOCK_SOURCE)
  ELSE Current

\* Lines 278-304: the crystal frequency after the ratio leaf and the model
\* table; Current is the cache before.
DirectART(h, Current) ==
  IF h.ARTFrequencyEcx > 0 THEN U64(h.ARTFrequencyEcx)
  ELSE KnownModelART(CpuModel(h), Current)

\* Mutant of ARTSupported: the maximum leaf is not tested.
ARTSupportedVendorOnly(h) == h.CpuVendor = CPUID_VENDOR_INTEL

\* Line 267
ARTSupported(h) ==
  h.CpuVendor = CPUID_VENDOR_INTEL /\ h.MaxId >= CPUID_TIME_STAMP_COUNTER

\* Mutant of RatioPresent: the numerator is not tested.
RatioPresentDenominatorOnly(h) == h.Denominator > 0

\* Line 306
RatioPresent(h) == h.Denominator > 0 /\ h.Numerator > 0

\* Mutant of NeedsCalibrator: the processor frequency leaf is not tested.
NeedsCalibratorAnyLeaf(h, ART) == IsZero(ART)

\* Line 311
NeedsCalibrator(h, ART) ==
  IsZero(ART) /\ h.MaxId >= CPUID_PROCESSOR_FREQUENCY

\* A register or CPUID field that the code never reads on this hardware
\* holds its default value: such configurations behave alike.
Canonical(h) ==
  LET D == HwDefault
      Intel == IntelPmTimer(h).TimerAddr
  IN  /\ (h.LpcVendorId # V_ICH_PCI_VENDOR_ID => h.LpcAcpiCntl = D.LpcAcpiCntl)
      /\ (h.LpcVendorId # V_ICH_PCI_VENDOR_ID \/ h.LpcAcpiCntl # 0
            => h.PmcVendorId = D.PmcVendorId)
      /\ (h.PmcVendorId # V_ICH_PCI_VENDOR_ID => h.PmcAcpiCntl = D.PmcAcpiCntl)
      /\ (h.PmcVendorId # V_ICH_PCI_VENDOR_ID \/ h.PmcAcpiCntl # 0
            => h.PmcBar2Base = D.PmcBar2Base)
      /\ (Intel # 0 \/ h.CpuVendor # CPUID_VENDOR_AMD
            => h.AmdPmTmrBlock = D.AmdPmTmrBlock)
      /\ (InternalGetPmTimerAddr(h).TimerAddr = 0 => h.TimerWidth = D.TimerWidth)
      /\ (h.CpuVendor # CPUID_VENDOR_INTEL => h.MaxId = D.MaxId)
      /\ (~ARTSupported(h)
            => /\ h.Denominator = D.Denominator
               /\ h.ARTFrequencyEcx = D.ARTFrequencyEcx)
      /\ (h.Denominator = 0 => h.Numerator = D.Numerator)
      /\ (h.ARTFrequencyEcx > 0 \/ ~ARTSupported(h)
            => h.Model = D.Model /\ h.ExtendedModelId = D.ExtendedModelId)
      /\ CpuModel(h) \in {60, CPU_MODEL_SKYLAKE, CPU_MODEL_KABYLAKE_DT,
                          CPU_MODEL_DENVERTON, CPU_MODEL_GOLDMONT}
      /\ (~(ARTSupported(h) /\ RatioPresent(h)
              /\ h.MaxId >= CPUID_PROCESSOR_FREQUENCY)
            => h.ProcessorBaseFrequency = D.ProcessorBaseFrequency)
      \* the ratio 1/2 only next to the 1 Hz crystal, where the quotient truncates
      /\ (h.Numerator = 1 <=> h.ARTFrequencyEcx = 1)

\* Chipsets whose legacy function is enabled while the power-management
\* controller function offers a timer too.
LocatorPriorityConfigs ==
  {[HwDefault EXCEPT !.LpcVendorId = V_ICH_PCI_VENDOR_ID, !.LpcAcpiCntl = 128,
                     !.PmcVendorId = V_ICH_PCI_VENDOR_ID, !.PmcAcpiCntl = Cntl,
                     !.PmcBar2Base = Bar2, !.CpuVendor = Vendor,
                     !.AmdPmTmrBlock = 2056] :
     Cntl \in {0, 128}, Bar2 \in {0, 1281}, Vendor \in {CPUID_VENDOR_AMD, 0}}

\* The configurations explored: every chipset layout with a CPU that is not
\* Intel, every CPUID configuration of an Intel CPU with the timer in
\* the LPC function or without a timer, and the chipsets with two timers.
HwConfigs ==
  {h \in HwAll :
     /\ Canonical(h)
     /\ \/ h.CpuVendor # CPUID_VENDOR_INTEL
        \/ IntelPmTimer(h).Type \in {"LPC", "Failure"}}
  \cup LocatorPriorityConfigs


(***************************************************************************)
(* State.                                                                  *)
(***************************************************************************)
VARIABLES
  hw,                    \* the hardware configuration
  TSCFrequency,          \* STATIC UINT64 of InternalCalculateTSCFromPMTimer
  ARTFrequency,          \* STATIC UINT64 of InternalCalcluateARTFrequencyIntel
  CPUFrequencyFromART,   \* STATIC UINT64 of InternalCalcluateARTFrequencyIntel
  stack,                 \* the call stack: frames [fn, pc, Recalculate]
  cal,                   \* locals of the calibrator
  art,                   \* locals of the resolver
  orch,                  \* locals of OcGetTSCFrequency
  loc,                   \* locals of the locator called with a tag slot
  ret,                   \* what the call that returned last has returned
  tpl,                   \* the current task priority level
  pmTimer,               \* the PM timer register
  acc,                   \* hardware accesses since the outermost call began
  returned,              \* history, kept where no caller recalculates: the
                         \* last non-zero value OcGetTSCFrequency has returned
  macho                  \* the Mach-O image and the call of OcMachoLib made on it

vars == <<hw, TSCFrequency, ARTFrequency, CPUFrequencyFromART, stack, cal, art,
          orch, loc, ret, tpl, pmTimer, acc, returned, macho>>

Zero32 == U32(0)

Zero64 == U64(0)

\* Locals before the function has run.  Cached, Dropped, Elapsed, Reads and
\* Path are history: the cached frequency a call has returned without
\* measuring, whether the call has cleared a non-zero cache, the ticks that
\* truly passed since the start read, the loop reads done, the path taken;
\* so are EntryTpl, Raises and Restores: the priority the call began at and
\* the RaiseTPL and RestoreTPL calls it has made.
CalFresh ==
  [TimerAddr |-> 0, AcpiTick0 |-> Zero32, AcpiTick1 |-> Zero32,
   AcpiTicksDelta |-> Zero32, Tsc0 |-> Zero64, Tsc1 |-> Zero64,
   PrevTpl |-> 0, Cached |-> Zero64, Dropped |-> FALSE, Elapsed |-> 0,
   Reads |-> 0, Path |-> "none", EntryTpl |-> 0, Raises |-> 0, Restores |-> 0]

\* Asserted: the conditions of the two ASSERTs, TRUE until evaluated.
\* Logging: the call is at a DEBUG statement.  Nested: what the calls made
\* from within this call's DEBUG statements have returned.
ArtFresh ==
  [CPUFrequencyFromTSC |-> Zero64, CachedART |-> Zero64, CachedCPU |-> Zero64,
   Path |-> "none", Asserted |-> <<TRUE, TRUE>>, Logging |-> FALSE,
   Nested |-> <<>>]

OrchFresh == [CPUFrequency |-> Zero64, FromART |-> Zero64, Path |-> "none"]

\* Probed is history: the registers the call has read.
LocFresh == [TimerAddr |-> 0, Type |-> "unset", Probed |-> {}]

\* Recalculate: the flag the call that returned was made with.
RetNone == [fn |-> "none", Recalculate |-> FALSE, Value |-> Zero64,
            CPUFrequency |-> Zero64]

\* Saved: the locals of the call that a re-entrant call has interrupted.
Frame(fn, Recalculate) ==
  [fn |-> fn, pc |-> "entry", Recalculate |-> Recalculate, Saved |-> <<>>]

Top == stack[Len(stack)]

At(fn, pc) == stack # <<>> /\ Top.fn = fn /\ Top.pc = pc

Goto(pc) == stack' = [stack EXCEPT ![Len(stack)].pc = pc]

\* A call: the caller resumes at pc once the callee has returned.
Invoke(pc, fn, Recalculate) ==
  stack' = Append([stack EXCEPT ![Len(stack)].pc = pc], Frame(fn, Recalculate))

\* No image: the state of OcMachoLib while OcCpuLib is looked at.
MachoNone ==
  [Signature |-> <<0, 0, 0, 0>>, Mem |-> <<>>, CommandsSize |-> 0, pc |-> "idle",
   LoadCommandType |-> 0, LoadCommand |-> 0, Command |-> 0, TopOfCommands |-> 0,
   Iterations |-> 0, Null |-> TRUE, Result |-> 0]

Init ==
  /\ hw \in HwConfigs
  /\ TSCFrequency = Zero64
  /\ ARTFrequency = Zero64
  /\ CPUFrequencyFromART = Zero64
  /\ stack = <<>>
  /\ cal = CalFresh
  /\ art = ArtFresh
  /\ orch = OrchFresh
  /\ loc = LocFresh
  /\ ret = RetNone
  /\ tpl \in CallerTpls
  /\ pmTimer = Zero32
  /\ acc = {}
  /\ returned = Zero64
  /\ macho = MachoNone

(***************************************************************************)
(* The boot environment calls one of the functions.                        *)
(***************************************************************************)
Enter(fn, Recalculate) ==
  /\ stack = <<>>
  /\ stack' = <<Frame(fn, Recalculate)>>
  /\ UNCHANGED <<hw, returned, macho, TSCFrequency, ARTFrequency, CPUFrequencyFromART, cal, art,
                 orch, loc, ret, tpl, pmTimer, acc>>

CallOcGetTSCFrequency == Enter("OcGetTSCFrequency", FALSE)

CallInternalCalcluateARTFrequencyIntel ==
  \E Recalculate \in BOOLEAN : Enter("InternalCalcluateARTFrequencyIntel", Recalculate)

CallInternalCalculateTSCFromPMTimer ==
  \E Recalculate \in BOOLEAN : Enter("InternalCalculateTSCFromPMTimer", Recalculate)

\* With a tag slot; the calibrator passes NULL and takes the address only.
CallInternalGetPmTimerAddr == Enter("InternalGetPmTimerAddr", FALSE)

\* A return: the frame is popped and the caller, if any, finds the result
\* in ret.  Once the outermost call has returned nothing but the statics
\* is left: the result is what the function holds in its "done" state.
\* When a re-entrant call returns, the interrupted call has its locals back.
Leave(Result) ==
  /\ stack' = SubSeq(stack, 1, Len(stack) - 1)
  /\ IF Len(stack) = 1
     THEN /\ ret' = RetNone
          /\ acc' = {}
          /\ cal' = CalFresh /\ art' = ArtFresh /\ orch' = OrchFresh /\ loc' = LocFresh
          /\ pmTimer' = Zero32
     ELSE IF Top.Saved # <<>>
     THEN /\ ret' = Top.Saved[1].ret
          /\ acc' = Top.Saved[1].acc
          /\ cal' = Top.Saved[1].cal
          /\ art' = [Top.Saved[1].art EXCEPT !.Nested = Append(@, Result)]
          /\ orch' = Top.Saved[1].orch
          /\ loc' = Top.Saved[1].loc
          /\ pmTimer' = Top.Saved[1].pmTimer
     ELSE /\ ret' = Result
          /\ UNCHANGED <<cal, art, orch, loc, pmTimer, acc>>

\* Lines 37-112 of InternalGetPmTimerAddr (&Type)
LocEntry ==
  /\ At("InternalGetPmTimerAddr", "entry")
  /\ loc' = [TimerAddr |-> InternalGetPmTimerAddr(hw).TimerAddr,
             Type |-> InternalGetPmTimerAddr(hw).Type,
             Probed |-> LocatorReads(hw)]
  /\ acc' = acc \cup {"locate"}
  /\ Goto("done")
  /\ UNCHANGED <<hw, returned, macho, TSCFrequency, ARTFrequency, CPUFrequencyFromART, cal, art,
                 orch, ret, tpl, pmTimer>>

\* Line 114
LocReturn ==
  /\ At("InternalGetPmTimerAddr", "done")
  /\ Leave(RetNone)
  /\ UNCHANGED <<hw, returned, macho, TSCFrequency, ARTFrequency, CPUFrequencyFromART, tpl>>

(***************************************************************************)
(* InternalCalculateTSCFromPMTimer, lines 117-226.                         *)
(***************************************************************************)
MAX_UINT32 == <<255, 255, 255, 255>>

\* Line 145
TimerResolution == 10

\* Line 164
AcpiTicksTarget == U32(V_ACPI_TMR_FREQUENCY \div TimerResolution)

\* Mutant of CalCacheAtEntry: the cache is cleared on every call.
CalCacheAtEntryAlwaysClear(Recalculate, Cache) == Zero64

\* Lines 139-141: the cache after the Recalculate test.
CalCacheAtEntry(Recalculate, Cache) == IF Recalculate THEN Zero64 ELSE Cache

\* The register counts modulo 2^Width; a 24-bit timer reads as zero in
\* bits 24-31.
TimerAdvance(Timer, Step, Width) ==
  IF Width = 24 THEN Ext(Add(Timer, U32(Step), 3), 4) ELSE Add(Timer, U32(Step), 4)

\* Lines 182-197: the ticks elapsed between two readings, in UINT32 arithmetic.
TicksDelta(AcpiTick0, AcpiTick1) ==
  IF LessEq(AcpiTick0, AcpiTick1)
  THEN Sub(AcpiTick1, AcpiTick0, 4)
  ELSE IF LessEq(Sub(AcpiTick0, AcpiTick1, 4), U32(16777215))
  THEN Add(Sub(U32(16777215), AcpiTick0, 4), AcpiTick1, 4)
  ELSE Add(Sub(MAX_UINT32, AcpiTick0, 4), AcpiTick1, 4)

\* Mutant of TimerAdvancing: the readings are not compared.
TimerAdvancingUnchecked(AcpiTick0, AcpiTick1) == TRUE

\* Line 155
TimerAdvancing(AcpiTick0, AcpiTick1) == AcpiTick0 # AcpiTick1

\* Lines 211-213
CalibratedFrequency(Tsc0, Tsc1, AcpiTicksDelta) ==
  DivU64x32(MultU64x32(Sub(Tsc1, Tsc0, 8), U32(V_ACPI_TMR_FREQUENCY)), AcpiTicksDelta)

\* Lines 139-147: the Recalculate test, the cache test, the locator.
CalEntry ==
  /\ At("InternalCalculateTSCFromPMTimer", "entry")
  /\ LET Cache == CalCacheAtEntry(Top.Recalculate, TSCFrequency)
         Addr  == InternalGetPmTimerAddr(hw).TimerAddr
     IN  /\ TSCFrequency' = Cache
         /\ IF ~IsZero(Cache)
            THEN /\ cal' = [CalFresh EXCEPT !.Cached = TSCFrequency, !.Path = "cached",
                                            !.EntryTpl = tpl]
                 /\ Goto("done")
                 /\ UNCHANGED acc
            ELSE /\ acc' = acc \cup {"locate"}
                 /\ IF Addr # 0
                    THEN /\ cal' = [CalFresh EXCEPT !.Dropped = ~IsZero(TSCFrequency),
                                                    !.TimerAddr = Addr,
                                                    !.Path = "located",
                                                    !.EntryTpl = tpl]
                         /\ Goto("sanity")
                    ELSE /\ cal' = [CalFresh EXCEPT !.Dropped = ~IsZero(TSCFrequency),
                                                    !.Path = "notimer",
                                                    !.EntryTpl = tpl]
                         /\ Goto("done")
  /\ UNCHANGED <<hw, returned, macho, ARTFrequency, CPUFrequencyFromART, art, orch, loc, ret, tpl, pmTimer>>

\* Lines 151-155: two readings 500 microseconds apart.
CalSanity ==
  /\ At("InternalCalculateTSCFromPMTimer", "sanity")
  /\ \E Start \in TimerStarts(hw.TimerWidth), Step \in SanitySteps :
       LET Tick1 == TimerAdvance(Start, Step, hw.TimerWidth)
       IN  /\ pmTimer' = Tick1
           /\ IF TimerAdvancing(Start, Tick1)
              THEN /\ cal' = [cal EXCEPT !.AcpiTick0 = Start, !.AcpiTick1 = Tick1,
                                         !.Path = "advancing"]
                   /\ Goto("raise")
              ELSE /\ cal' = [cal EXCEPT !.AcpiTick0 = Start, !.AcpiTick1 = Tick1,
                                         !.Path = "stuck"]
                   /\ Goto("done")
  /\ acc' = acc \cup {"io", "stall"}
  /\ UNCHANGED <<hw, returned, macho, TSCFrequency, ARTFrequency, CPUFrequencyFromART, art, orch,
                 loc, ret, tpl>>

\* Lines 164-169: RaiseTPL returns the level it has replaced.
CalRaise ==
  /\ At("InternalCalculateTSCFromPMTimer", "raise")
  /\ cal' = [cal EXCEPT !.PrevTpl = tpl, !.Raises = @ + 1]
  /\ tpl' = TPL_HIGH_LEVEL
  /\ acc' = acc \cup {"tpl"}
  /\ Goto("start")
  /\ UNCHANGED <<hw, returned, macho, TSCFrequency, ARTFrequency, CPUFrequencyFromART, art, orch,
                 loc, ret, pmTimer>>

\* Lines 171-172: the start pair.
CalStart ==
  /\ At("InternalCalculateTSCFromPMTimer", "start")
  /\ \E Step \in StartSteps, Tsc \in TscStarts :
       /\ pmTimer' = TimerAdvance(pmTimer, Step, hw.TimerWidth)
       /\ cal' = [cal EXCEPT !.AcpiTick0 = pmTimer', !.Tsc0 = Tsc,
                             !.Elapsed = 0, !.Reads = 0]
  /\ acc' = acc \cup {"io", "tsc"}
  /\ Goto("loop")
  /\ UNCHANGED <<hw, returned, macho, TSCFrequency, ARTFrequency, CPUFrequencyFromART, art, orch,
                 loc, ret, tpl>>

\* Mutant of LoopAgain: the body of the loop runs once.
LoopAgainNever(AcpiTicksDelta) == FALSE

\* Line 202: while (AcpiTicksDelta < AcpiTicksTarget)
LoopAgain(AcpiTicksDelta) == Less(AcpiTicksDelta, AcpiTicksTarget)

\* Lines 174-202: one iteration of the do-while loop.
CalLoop ==
  /\ At("InternalCalculateTSCFromPMTimer", "loop")
  /\ \E Step \in TimerSteps :
       /\ cal.Reads < MaxSmallReads \/ Step = WindowStep
       /\ pmTimer' = TimerAdvance(pmTimer, Step, hw.TimerWidth)
       /\ LET Delta == TicksDelta(cal.AcpiTick0, pmTimer')
          IN  /\ cal' = [cal EXCEPT !.AcpiTick1 = pmTimer', !.AcpiTicksDelta = Delta,
                                    !.Elapsed = @ + Step, !.Reads = @ + 1]
              /\ IF LoopAgain(Delta) THEN Goto("loop") ELSE Goto("finish")
  /\ UNCHANGED <<hw, returned, macho, TSCFrequency, ARTFrequency, CPUFrequencyFromART, art, orch,
                 loc, ret, tpl, acc>>

\* Lines 204-213: the end reading and the frequency.
CalFinish ==
  /\ At("InternalCalculateTSCFromPMTimer", "finish")
  /\ \E Ticks \in TscDeltas :
       LET Tsc1 == Add(cal.Tsc0, Ticks, 8)
       IN  /\ cal' = [cal EXCEPT !.Tsc1 = Tsc1, !.Path = "measured"]
           /\ TSCFrequency' = CalibratedFrequency(cal.Tsc0, Tsc1, cal.AcpiTicksDelta)
  /\ Goto("restore")
  /\ UNCHANGED <<hw, returned, macho, ARTFrequency, CPUFrequencyFromART, art, orch, loc, ret, tpl,
                 pmTimer, acc>>

\* Mutant of RestoredTpl: the priority of an application, not the saved one.
RestoredTplApplication(PrevTpl) == TPL_APPLICATION

\* Line 218: gBS->RestoreTPL (PrevTpl)
RestoredTpl(PrevTpl) == PrevTpl

\* Line 218
CalRestore ==
  /\ At("InternalCalculateTSCFromPMTimer", "restore")
  /\ tpl' = RestoredTpl(cal.PrevTpl)
  /\ cal' = [cal EXCEPT !.Restores = @ + 1]
  /\ Goto("done")
  /\ UNCHANGED <<hw, returned, macho, TSCFrequency, ARTFrequency, CPUFrequencyFromART, art, orch,
                 loc, ret, pmTimer, acc>>

\* Lines 222-225
CalReturn ==
  /\ At("InternalCalculateTSCFromPMTimer", "done")
  /\ Leave([RetNone EXCEPT !.fn = "InternalCalculateTSCFromPMTimer",
                           !.Recalculate = Top.Recalculate,
                           !.Value = TSCFrequency])
  /\ UNCHANGED <<hw, returned, macho, TSCFrequency, ARTFrequency, CPUFrequencyFromART, tpl>>


(***************************************************************************)
(* InternalCalcluateARTFrequencyIntel, lines 228-370.                      *)
(***************************************************************************)
\* Mutant of ArtCacheAtEntry: Recalculate clears the crystal frequency only.
ArtCacheAtEntryKeepsCPU(Recalculate, ART, CPU) ==
  IF Recalculate THEN <<Zero64, CPU>> ELSE <<ART, CPU>>

\* Mutant of ArtCacheAtEntry: the pair is cleared on every call.
ArtCacheAtEntryAlwaysClear(Recalculate, ART, CPU) == <<Zero64, Zero64>>

\* Lines 254-257: the cached pair after the Recalculate test.
ArtCacheAtEntry(Recalculate, ART, CPU) ==
  IF Recalculate THEN <<Zero64, Zero64>> ELSE <<ART, CPU>>

\* Lines 313-318: crystal = TSC frequency * denominator / numerator.
BackDerivedART(CPUFrequencyFromTSC, h) ==
  MultThenDivU64x64x32(CPUFrequencyFromTSC, U32(h.Denominator), U32(h.Numerator))

\* Line 332: the base frequency of the processor frequency leaf, MHz to Hz.
ReportedBase(h) == MultU64x32(U64(h.ProcessorBaseFrequency), U32(1000000))

\* Lines 340-343
DefaultedART(ART) == IF IsZero(ART) THEN U64(DEFAULT_ART_CLOCK_SOURCE) ELSE ART

\* Mutant of DerivedBase: the base frequency is derived from the ratio
\* whatever line 332 has stored.
DerivedBaseAlwaysRatio(ART, CPU, h) ==
  MultThenDivU64x64x32(ART, U32(h.Numerator), U32(h.Denominator))

\* Lines 346-353
DerivedBase(ART, CPU, h) ==
  IF IsZero(CPU)
  THEN MultThenDivU64x64x32(ART, U32(h.Numerator), U32(h.Denominator))
  ELSE CPU

\* Lines 254-259
ArtEntry ==
  /\ At("InternalCalcluateARTFrequencyIntel", "entry")
  /\ LET Cache == ArtCacheAtEntry(Top.Recalculate, ARTFrequency, CPUFrequencyFromART)
     IN  /\ ARTFrequency' = Cache[1]
         /\ CPUFrequencyFromART' = Cache[2]
         /\ IF IsZero(Cache[1])
            THEN /\ art' = [ArtFresh EXCEPT !.CachedART = ARTFrequency,
                                            !.CachedCPU = CPUFrequencyFromART]
                 /\ Goto("resolve")
            ELSE /\ art' = [ArtFresh EXCEPT !.CachedART = ARTFrequency,
                                            !.CachedCPU = CPUFrequencyFromART,
                                            !.Path = "cached"]
                 /\ Goto("done")
  /\ UNCHANGED <<hw, returned, macho, TSCFrequency, cal, orch, loc, ret, tpl, pmTimer, acc>>

\* Lines 263-304: the vendor test, the ratio leaf, the model table.  The
\* crystal frequency is stored before the DEBUG statement that reports it.
ArtResolve ==
  /\ At("InternalCalcluateARTFrequencyIntel", "resolve")
  /\ IF ~ARTSupported(hw)
     THEN /\ art' = [art EXCEPT !.Path = "unsupported"]
          /\ acc' = acc \cup {"cpuid"}
          /\ Goto("done")
          /\ UNCHANGED ARTFrequency
     ELSE LET ART == DirectART(hw, ARTFrequency)
          IN  /\ ARTFrequency' = ART
              /\ art' = [art EXCEPT !.Path = IF hw.ARTFrequencyEcx > 0 THEN "queried"
                                             ELSE "known",
                                    !.Logging = ~IsZero(ART)]
              /\ acc' = acc \cup {"cpuid", "msr"}
              /\ Goto("ratio")
  /\ UNCHANGED <<hw, returned, macho, TSCFrequency, CPUFrequencyFromART, cal, orch, loc, ret, tpl,
                 pmTimer>>

\* Lines 306-312 and, unless the calibrator is called, 340-343.
ArtRatio ==
  /\ At("InternalCalcluateARTFrequencyIntel", "ratio")
  /\ IF ~RatioPresent(hw)
     THEN /\ art' = [art EXCEPT !.Path = "noratio", !.Logging = FALSE]
          /\ Goto("done")
          /\ UNCHANGED <<ARTFrequency, acc>>
     ELSE IF NeedsCalibrator(hw, ARTFrequency)
     THEN /\ acc' = acc \cup {"calibrator"}
          /\ Invoke("derive", "InternalCalculateTSCFromPMTimer", Top.Recalculate)
          /\ UNCHANGED <<ARTFrequency, art>>
     ELSE /\ ARTFrequency' = DefaultedART(ARTFrequency)
          /\ art' = [art EXCEPT !.Path = IF IsZero(ARTFrequency) THEN "default" ELSE @,
                                !.Logging = IsZero(ARTFrequency)]
          /\ Goto("base")
          /\ UNCHANGED acc
  /\ UNCHANGED <<hw, returned, macho, TSCFrequency, CPUFrequencyFromART, cal, orch, loc, ret, tpl,
                 pmTimer>>

\* Lines 312-327 and, if the quotient is 0, 340-343: the calibrator has
\* returned; the crystal frequency is stored before the DEBUG statement.
ArtDerive ==
  /\ At("InternalCalcluateARTFrequencyIntel", "derive")
  /\ LET ART == BackDerivedART(ret.Value, hw)
     IN  /\ ARTFrequency' = DefaultedART(ART)
         /\ art' = [art EXCEPT !.Path = IF IsZero(ART) THEN "default" ELSE "backderived",
                               !.CPUFrequencyFromTSC = ret.Value,
                               !.Logging = TRUE]
         /\ IF IsZero(ART) THEN Goto("base") ELSE Goto("reported")
  /\ UNCHANGED <<hw, returned, macho, TSCFrequency, CPUFrequencyFromART, cal, orch, loc, ret, tpl,
                 pmTimer, acc>>

\* Lines 331-332: the reported base frequency.
ArtReported ==
  /\ At("InternalCalcluateARTFrequencyIntel", "reported")
  /\ CPUFrequencyFromART' = ReportedBase(hw)
  /\ art' = [art EXCEPT !.Logging = FALSE]
  /\ acc' = acc \cup {"cpuid"}
  /\ Goto("base")
  /\ UNCHANGED <<hw, returned, macho, TSCFrequency, ARTFrequency, cal, orch, loc, ret, tpl, pmTimer>>

\* Lines 345-354: the derived base frequency between the two ASSERTs, and
\* the DEBUG statement of line 355.  (A build with ASSERTs disabled
\* continues past a failed ASSERT; one with them enabled stops there, with
\* the same statics.)
ArtBase ==
  /\ At("InternalCalcluateARTFrequencyIntel", "base")
  /\ LET C == DerivedBase(ARTFrequency, CPUFrequencyFromART, hw)
     IN  /\ CPUFrequencyFromART' = C
         /\ art' = [art EXCEPT !.Asserted = <<~IsZero(ARTFrequency), ~IsZero(C)>>,
                               !.Logging = TRUE]
  /\ Goto("logged")
  /\ UNCHANGED <<hw, returned, macho, TSCFrequency, ARTFrequency, cal, orch, loc, ret, tpl, pmTimer,
                 acc>>

\* Lines 355-364
ArtLogged ==
  /\ At("InternalCalcluateARTFrequencyIntel", "logged")
  /\ art' = [art EXCEPT !.Logging = FALSE]
  /\ Goto("done")
  /\ UNCHANGED <<hw, returned, macho, TSCFrequency, ARTFrequency, CPUFrequencyFromART, cal, orch,
                 loc, ret, tpl, pmTimer, acc>>

\* A DEBUG statement of the resolver calls back into the library: a call
\* with Recalculate = FALSE begins while the resolver is at the statement.
ArtReenter(fn) ==
  /\ stack # <<>>
  /\ Top.fn = "InternalCalcluateARTFrequencyIntel"
  /\ art.Logging
  /\ Len(art.Nested) < MaxNestedCalls
  /\ stack' = Append(stack,
                     [Frame(fn, FALSE) EXCEPT
                        !.Saved = <<[ret |-> ret, acc |-> acc, cal |-> cal, art |-> art,
                                     orch |-> orch, loc |-> loc, pmTimer |-> pmTimer]>>])
  /\ ret' = RetNone
  /\ acc' = {}
  /\ cal' = CalFresh /\ art' = ArtFresh /\ orch' = OrchFresh /\ loc' = LocFresh
  /\ UNCHANGED <<hw, returned, macho, TSCFrequency, ARTFrequency, CPUFrequencyFromART, tpl, pmTimer>>

ReenterInternalCalcluateARTFrequencyIntel ==
  ArtReenter("InternalCalcluateARTFrequencyIntel")

ReenterOcGetTSCFrequency == ArtReenter("OcGetTSCFrequency")

\* Lines 368-369
ArtReturn ==
  /\ At("InternalCalcluateARTFrequencyIntel", "done")
  /\ Leave([RetNone EXCEPT !.fn = "InternalCalcluateARTFrequencyIntel",
                           !.Recalculate = Top.Recalculate,
                           !.Value = ARTFrequency,
                           !.CPUFrequency = CPUFrequencyFromART])
  /\ UNCHANGED <<hw, returned, macho, TSCFrequency, ARTFrequency, CPUFrequencyFromART, tpl>>

(***************************************************************************)
(* OcGetTSCFrequency, lines 372-393.                                       *)
(***************************************************************************)
\* Mutant of OrchNeedsPMTimer: the PM timer is consulted whatever the
\* resolver has returned.
OrchNeedsPMTimerAlways(CPUFrequency) == TRUE

\* Line 385
OrchNeedsPMTimer(CPUFrequency) == IsZero(CPUFrequency)

\* Line 384
OrchEntry ==
  /\ At("OcGetTSCFrequency", "entry")
  /\ Invoke("resolved", "InternalCalcluateARTFrequencyIntel", FALSE)
  /\ UNCHANGED <<hw, returned, macho, TSCFrequency, ARTFrequency, CPUFrequencyFromART, cal, art,
                 orch, loc, ret, tpl, pmTimer, acc>>

\* Lines 385-386
OrchResolved ==
  /\ At("OcGetTSCFrequency", "resolved")
  /\ IF OrchNeedsPMTimer(ret.CPUFrequency)
     THEN /\ orch' = [orch EXCEPT !.CPUFrequency = ret.CPUFrequency,
                                  !.FromART = ret.CPUFrequency, !.Path = "pmtimer"]
          /\ Invoke("calibrated", "InternalCalculateTSCFromPMTimer", FALSE)
     ELSE /\ orch' = [orch EXCEPT !.CPUFrequency = ret.CPUFrequency,
                                  !.FromART = ret.CPUFrequency, !.Path = "art"]
          /\ Goto("done")
  /\ UNCHANGED <<hw, returned, macho, TSCFrequency, ARTFrequency, CPUFrequencyFromART, cal, art,
                 loc, ret, tpl, pmTimer, acc>>

\* Line 386, after the calibrator has returned.
OrchCalibrated ==
  /\ At("OcGetTSCFrequency", "calibrated")
  /\ orch' = [orch EXCEPT !.CPUFrequency = ret.Value]
  /\ Goto("done")
  /\ UNCHANGED <<hw, returned, macho, TSCFrequency, ARTFrequency, CPUFrequencyFromART, cal, art,
                 loc, ret, tpl, pmTimer, acc>>

\* Line 392
OrchReturn ==
  /\ At("OcGetTSCFrequency", "done")
  /\ Leave([RetNone EXCEPT !.fn = "OcGetTSCFrequency", !.Value = orch.CPUFrequency])
  /\ UNCHANGED <<hw, returned, macho, TSCFrequency, ARTFrequency, CPUFrequencyFromART, tpl>>

\* Line 392, with the returned value noted in the history.
OrchReturnNoted ==
  /\ At("OcGetTSCFrequency", "done")
  /\ Leave([RetNone EXCEPT !.fn = "OcGetTSCFrequency", !.Value = orch.CPUFrequency])
  /\ returned' = IF IsZero(orch.CPUFrequency) THEN returned ELSE orch.CPUFrequency
  /\ UNCHANGED <<hw, macho, TSCFrequency, ARTFrequency, CPUFrequencyFromART, tpl>>

Next ==
  \/ CallOcGetTSCFrequency
  \/ CallInternalCalcluateARTFrequencyIntel
  \/ CallInternalCalculateTSCFromPMTimer
  \/ CallInternalGetPmTimerAddr
  \/ LocEntry
  \/ LocReturn
  \/ CalEntry
  \/ CalSanity
  \/ CalRaise
  \/ CalStart
  \/ CalLoop
  \/ CalFinish
  \/ CalRestore
  \/ CalReturn
  \/ ArtEntry
  \/ ArtResolve
  \/ ArtRatio
  \/ ArtDerive
  \/ ArtReported
  \/ ArtBase
  \/ ArtLogged
  \/ ArtReturn
  \/ OrchEntry
  \/ OrchResolved
  \/ OrchCalibrated
  \/ OrchReturn

Spec == Init /\ [][Next]_vars

\* The calibrator on its own, on the machines where nothing but the PM
\* timer yields a frequency.  Once called, the calibrator runs to its
\* return: nothing preempts the boot environment's single thread, and inside
\* the critical section all events are disabled.
LiveInit == Init /\ hw.CpuVendor # CPUID_VENDOR_INTEL

LiveNext ==
  \/ CallInternalCalculateTSCFromPMTimer
  \/ CalEntry
  \/ CalSanity
  \/ CalRaise
  \/ CalStart
  \/ CalLoop
  \/ CalFinish
  \/ CalRestore
  \/ CalReturn

\* A step of the calibrator outside the loop, by the position alone: the
\* calibrator moves on or returns.
CalMoves ==
  /\ stack # <<>>
  /\ Top.fn = "InternalCalculateTSCFromPMTimer"
  /\ Top.pc # "loop"
  /\ \/ \E pc \in {"sanity", "raise", "start", "loop", "restore", "done"} : Goto(pc)
     \/ stack' = SubSeq(stack, 1, Len(stack) - 1)

\* A step of the loop, by the position and the timer alone: the loop reads
\* the timer once more.
CalReads ==
  /\ At("InternalCalculateTSCFromPMTimer", "loop")
  /\ \E Step \in TimerSteps : pmTimer' = TimerAdvance(pmTimer, Step, hw.TimerWidth)

LiveSpec ==
  LiveInit /\ [][LiveNext]_vars /\ WF_stack(CalMoves) /\ WF_pmTimer(CalReads)

\* The boot environment as section 5 of the design requires the library to
\* withstand it: the logging behind a DEBUG statement of the resolver may
\* call back into the library.
NextReentrant ==
  \/ Next
  \/ ReenterInternalCalcluateARTFrequencyIntel
  \/ ReenterOcGetTSCFrequency

SpecReentrant == Init /\ [][NextReentrant]_vars

\* The boot environment when no caller asks for a recalculation, with the
\* values that OcGetTSCFrequency returns noted.
CallInternalCalcluateARTFrequencyIntelCached ==
  Enter("InternalCalcluateARTFrequencyIntel", FALSE)

CallInternalCalculateTSCFromPMTimerCached ==
  Enter("InternalCalculateTSCFromPMTimer", FALSE)

NextCached ==
  \/ CallOcGetTSCFrequency
  \/ CallInternalCalcluateARTFrequencyIntelCached
  \/ CallInternalCalculateTSCFromPMTimerCached
  \/ CallInternalGetPmTimerAddr
  \/ LocEntry
  \/ LocReturn
  \/ CalEntry
  \/ CalSanity
  \/ CalRaise
  \/ CalStart
  \/ CalLoop
  \/ CalFinish
  \/ CalRestore
  \/ CalReturn
  \/ ArtEntry
  \/ ArtResolve
  \/ ArtRatio
  \/ ArtDerive
  \/ ArtReported
  \/ ArtBase
  \/ ArtLogged
  \/ ArtReturn
  \/ OrchEntry
  \/ OrchResolved
  \/ OrchCalibrated
  \/ OrchReturnNoted

SpecCached == Init /\ [][NextCached]_vars


(***************************************************************************)
(* OcMachoLib: MachoGetNextCommand64, Header.c lines 68-102.               *)
(* The memory from MachHeader->Commands on is a sequence of 32-bit words;  *)
(* addresses and sizes are in words and relative to MachHeader->Commands.  *)
(* A load command is the word of its Type followed by the word of its Size.*)
(* Addresses are far from the top of the address space: no sum wraps.      *)
(***************************************************************************)
\* Words of memory from MachHeader->Commands on, the load-command area and
\* what follows it.
MemWords == 8

\* Iterations of the loop followed: one more than a walk that advances
\* through memory can make.
MaxIterations == MemWords + 1

\* 0xFEEDFACF
MACH_HEADER_64_SIGNATURE == <<207, 250, 237, 254>>

\* LC_SEGMENT_64
MACH_LOAD_COMMAND_SEGMENT_64 == 25

\* LC_UUID
MACH_LOAD_COMMAND_UUID == 27

\* sizeof (MACH_LOAD_COMMAND) in words: Type and Size.
MachLoadCommandWords == 2

\* Values of LoadCommandType and of the Type of a command.
MachoTypes == {MACH_LOAD_COMMAND_SEGMENT_64, MACH_LOAD_COMMAND_UUID}

\* Values of the Size of a command: 0, that of a bare load command, and
\* one that exceeds every area.
MachoSizes == {0, MachLoadCommandWords, MemWords}

\* With these sizes a walk from a LoadCommand drawn below meets Type words
\* at even addresses and Size words at odd ones only (Mem is indexed from 1).
MachoMems ==
  {Mem \in [1..MemWords -> MachoTypes \cup MachoSizes] :
     \A a \in 1..MemWords :
       Mem[a] \in (IF a % MachLoadCommandWords = 1 THEN MachoTypes ELSE MachoSizes)}

\* Values of MachHeader->CommandsSize: an area that ends within the header
\* of a command, and one that ends where a command ends.
MachoCommandsSizes == {MemWords - 3, MemWords - 2}

\* Values of LoadCommand: before the first load command, and from it on
\* in steps of a bare load command, the area's end included.
MachoLoadCommands ==
  {-MachLoadCommandWords}
    \cup {a \in 0..(MemWords - 2) : a % MachLoadCommandWords = 0}

\* The images: every memory under the signature, one under another value.
MachoImages ==
  {[MachoNone EXCEPT !.Signature = MACH_HEADER_64_SIGNATURE, !.Mem = Mem,
                     !.CommandsSize = Size] :
     Mem \in MachoMems, Size \in MachoCommandsSizes}
  \cup {[MachoNone EXCEPT !.Signature = <<206, 250, 237, 254>>,
                          !.Mem = [a \in 1..MemWords |-> MachLoadCommandWords],
                          !.CommandsSize = MemWords - 2]}

\* Command->Type
CommandType(m, Command) == m.Mem[Command + 1]

\* Command->Size
CommandSize(m, Command) == m.Mem[Command + 2]

\* NEXT_MACH_LOAD_COMMAND (Command)
NEXT_MACH_LOAD_COMMAND(m, Command) == Command + CommandSize(m, Command)

\* Lines 92-93: the condition of the for loop.
InCommands(m, Command) ==
  /\ Command < m.TopOfCommands
  /\ Command + CommandSize(m, Command) <= m.TopOfCommands

InitMacho ==
  /\ hw = HwDefault
  /\ TSCFrequency = Zero64
  /\ ARTFrequency = Zero64
  /\ CPUFrequencyFromART = Zero64
  /\ stack = <<>>
  /\ cal = CalFresh
  /\ art = ArtFresh
  /\ orch = OrchFresh
  /\ loc = LocFresh
  /\ ret = RetNone
  /\ tpl = TPL_APPLICATION
  /\ pmTimer = Zero32
  /\ acc = {}
  /\ returned = Zero64
  /\ macho \in MachoImages

\* A caller passes a type and a previous load command.
CallMachoGetNextCommand64 ==
  /\ macho.pc = "idle"
  /\ \E LoadCommandType \in MachoTypes, LoadCommand \in MachoLoadCommands :
       macho' = [macho EXCEPT !.pc = "entry", !.LoadCommandType = LoadCommandType,
                              !.LoadCommand = LoadCommand]
  /\ UNCHANGED <<hw, TSCFrequency, ARTFrequency, CPUFrequencyFromART, stack, cal,
                 art, orch, loc, ret, tpl, pmTimer, acc, returned>>

\* Lines 83-91: the tests of the arguments, TopOfCommands, the first Command.
MachoEntry ==
  /\ macho.pc = "entry"
  /\ IF macho.Signature # MACH_HEADER_64_SIGNATURE \/ macho.LoadCommand < 0
     THEN macho' = [macho EXCEPT !.pc = "done", !.Null = TRUE]
     ELSE macho' = [macho EXCEPT !.pc = "loop",
                                 !.TopOfCommands = macho.CommandsSize,
                                 !.Command = NEXT_MACH_LOAD_COMMAND(macho, macho.LoadCommand)]
  /\ UNCHANGED <<hw, TSCFrequency, ARTFrequency, CPUFrequencyFromART, stack, cal,
                 art, orch, loc, ret, tpl, pmTimer, acc, returned>>

\* Lines 92-101: the condition, the body and the increment of the for loop.
\* Iterations is history: the times the increment has run.
MachoLoop ==
  /\ macho.pc = "loop"
  /\ macho.Iterations < MaxIterations
  /\ IF ~InCommands(macho, macho.Command)
     THEN macho' = [macho EXCEPT !.pc = "done", !.Null = TRUE]
     ELSE IF CommandType(macho, macho.Command) = macho.LoadCommandType
     THEN macho' = [macho EXCEPT !.pc = "done", !.Null = FALSE,
                                 !.Result = macho.Command]
     ELSE macho' = [macho EXCEPT !.Command = NEXT_MACH_LOAD_COMMAND(macho, macho.Command),
                                 !.Iterations = @ + 1]
  /\ UNCHANGED <<hw, TSCFrequency, ARTFrequency, CPUFrequencyFromART, stack, cal,
                 art, orch, loc, ret, tpl, pmTimer, acc, returned>>

\* Lines 85, 97, 101: the caller has the result; the image is as before.
MachoReturn ==
  /\ macho.pc = "done"
  /\ macho' = [MachoNone EXCEPT !.Signature = macho.Signature, !.Mem = macho.Mem,
                                !.CommandsSize = macho.CommandsSize]
  /\ UNCHANGED <<hw, TSCFrequency, ARTFrequency, CPUFrequencyFromART, stack, cal,
                 art, orch, loc, ret, tpl, pmTimer, acc, returned>>

NextMacho ==
  \/ CallMachoGetNextCommand64
  \/ MachoEntry
  \/ MachoLoop
  \/ MachoReturn

SpecMacho == InitMacho /\ [][NextMacho]_vars


(***************************************************************************)
(* OcMachoLib: the segment walk and the section lookups, Header.c lines    *)
(* 113-135, 305-337 and 397-467.  Here the image is well formed: its load  *)
(* commands lie one after the other and fill the load-command area, so the *)
(* walk of MachoGetNextCommand64 meets every command in turn.  The image   *)
(* is the sequence of its commands; a command is named by its place in     *)
(* the sequence, NULL by 0; a section by its index in Segment->Sections.   *)
(* macho holds the image and the locals of the lookup that runs.           *)
(***************************************************************************)
\* Load commands of an image.
MaxCommands == 3

\* A load command that is no segment.
UuidCommand ==
  [Type |-> MACH_LOAD_COMMAND_UUID, VirtualAddress |-> 0, Size |-> 0, FileSize |-> 0,
   NumberOfSections |-> 0, Sections |-> <<>>]

\* A segment command with its sections.
SegmentCommand(VirtualAddress, Size, FileSize, Sections) ==
  [Type |-> MACH_LOAD_COMMAND_SEGMENT_64, VirtualAddress |-> VirtualAddress,
   Size |-> Size, FileSize |-> FileSize, NumberOfSections |-> Len(Sections),
   Sections |-> Sections]

\* The commands drawn: a segment at address 0 without file content, a
\* segment at address 0 with file content, a segment with two sections, a
\* segment without sections, and a command that is no segment.
MachoCommands ==
  {SegmentCommand(0, 4096, 0, <<[Address |-> 0, Size |-> 16]>>),
   SegmentCommand(0, 4096, 4096, <<[Address |-> 0, Size |-> 16]>>),
   SegmentCommand(4096, 8192, 8192, <<[Address |-> 4096, Size |-> 100],
                                      [Address |-> 4196, Size |-> 200]>>),
   SegmentCommand(16384, 4096, 0, <<>>),
   UuidCommand}

\* Values of Address: in a section, between sections, outside every segment.
MachoAddresses == {0, 8, 16, 4096, 4200, 5000, 20000}

\* Values of Index: up to the most sections an image drawn has.
MachoIndexes == 0..(2 * MaxCommands)

\* Bytes of a UINTN: the IA32 build and the X64 build.
UintnBytes == {4, 8}

SectionsNone ==
  [Signature |-> <<0, 0, 0, 0>>, Commands |-> <<>>, Uintn |-> 8, fn |-> "none",
   pc |-> "idle", Address |-> 0, Index |-> 0, Segment |-> 0, SectionIndex |-> 0,
   Null |-> TRUE, ResultSegment |-> 0, ResultSection |-> 0]

\* The images: every sequence of commands under the signature (the empty
\* one too: NumberOfCommands is 0), one under another value.
SectionImages ==
  {[SectionsNone EXCEPT !.Signature = MACH_HEADER_64_SIGNATURE, !.Commands = Commands,
                        !.Uintn = Uintn] :
     Commands \in UNION {[1..n -> MachoCommands] : n \in 0..MaxCommands},
     Uintn \in UintnBytes}
  \cup {[SectionsNone EXCEPT !.Signature = <<206, 250, 237, 254>>,
                             !.Commands = <<UuidCommand>>]}

\* Lines 90-101 on a well-formed image: the first command of the type after
\* the command at place k, NULL if there is none.
NextCommandOfType(m, LoadCommandType, k) ==
  LET After == {j \in (k + 1)..Len(m.Commands) : m.Commands[j].Type = LoadCommandType}
  IN  IF After = {} THEN 0 ELSE CHOOSE j \in After : \A i \in After : j <= i

\* Lines 113-135
MachoGetFirstCommand64(m, LoadCommandType) ==
  IF m.Signature # MACH_HEADER_64_SIGNATURE \/ Len(m.Commands) = 0 THEN 0
  ELSE IF m.Commands[1].Type = LoadCommandType THEN 1
  ELSE NextCommandOfType(m, LoadCommandType, 1)

\* Lines 305-313
MachoGetFirstSegment64(m) == MachoGetFirstCommand64(m, MACH_LOAD_COMMAND_SEGMENT_64)

\* Lines 324-337
MachoGetNextSegment64(m, Segment) ==
  IF m.Signature # MACH_HEADER_64_SIGNATURE THEN 0
  ELSE NextCommandOfType(m, MACH_LOAD_COMMAND_SEGMENT_64, Segment)

\* Lines 451-452 as C parses them: + binds tighter than >= and <, which
\* associate to the left, so the parenthesis holds the comparison
\* (VirtualAddress + Address) >= FileSize, whose value is 0 or 1.
AddressInSegment(Segment, Address) ==
  /\ Address >= Segment.VirtualAddress
  /\ Address < (IF Segment.VirtualAddress + Address >= Segment.FileSize THEN 1 ELSE 0)

\* Lines 456-457
AddressInSection(Section, Address) ==
  /\ Address >= Section.Address
  /\ Address < Section.Address + Section.Size

\* Lines 453-462: the index of the first section that holds the address,
\* NumberOfSections if none does.
SectionWithAddress(Segment, Address) ==
  LET Hits == {i \in 0..(Segment.NumberOfSections - 1) :
                 AddressInSection(Segment.Sections[i + 1], Address)}
  IN  IF Hits = {} THEN Segment.NumberOfSections
      ELSE CHOOSE i \in Hits : \A j \in Hits : i <= j

InitSections ==
  /\ hw = HwDefault
  /\ TSCFrequency = Zero64
  /\ ARTFrequency = Zero64
  /\ CPUFrequencyFromART = Zero64
  /\ stack = <<>>
  /\ cal = CalFresh
  /\ art = ArtFresh
  /\ orch = OrchFresh
  /\ loc = LocFresh
  /\ ret = RetNone
  /\ tpl = TPL_APPLICATION
  /\ pmTimer = Zero32
  /\ acc = {}
  /\ returned = Zero64
  /\ macho \in SectionImages

\* Lines 434-447: the call and the first segment.
CallMachoGetSectionByAddress64 ==
  /\ macho.pc = "idle"
  /\ \E Address \in MachoAddresses :
       macho' = [macho EXCEPT !.fn = "MachoGetSectionByAddress64", !.pc = "test",
                              !.Address = Address,
                              !.Segment = MachoGetFirstSegment64(macho)]
  /\ UNCHANGED <<hw, TSCFrequency, ARTFrequency, CPUFrequencyFromART, stack, cal,
                 art, orch, loc, ret, tpl, pmTimer, acc, returned>>

\* Lines 448-466: the condition and the body of the loop over the segments.
SectionByAddressTest ==
  /\ macho.fn = "MachoGetSectionByAddress64" /\ macho.pc = "test"
  /\ IF macho.Segment = 0
     THEN macho' = [macho EXCEPT !.pc = "done", !.Null = TRUE]
     ELSE LET Segment == macho.Commands[macho.Segment]
              Index == SectionWithAddress(Segment, macho.Address)
          IN  IF AddressInSegment(Segment, macho.Address)
                   /\ Index < Segment.NumberOfSections
              THEN macho' = [macho EXCEPT !.pc = "done", !.Null = FALSE,
                                          !.ResultSegment = macho.Segment,
                                          !.ResultSection = Index]
              ELSE macho' = [macho EXCEPT !.pc = "next"]
  /\ UNCHANGED <<hw, TSCFrequency, ARTFrequency, CPUFrequencyFromART, stack, cal,
                 art, orch, loc, ret, tpl, pmTimer, acc, returned>>

\* Line 449
SectionByAddressNext ==
  /\ macho.fn = "MachoGetSectionByAddress64" /\ macho.pc = "next"
  /\ macho' = [macho EXCEPT !.pc = "test",
                            !.Segment = MachoGetNextSegment64(macho, macho.Segment)]
  /\ UNCHANGED <<hw, TSCFrequency, ARTFrequency, CPUFrequencyFromART, stack, cal,
                 art, orch, loc, ret, tpl, pmTimer, acc, returned>>

\* Line 415: Index <= SectionIndex + (Segment->NumberOfSections - 1), the
\* difference in 32 bits (NumberOfSections is a UINT32), the sum in a UINTN.
IndexInSegment(Index, SectionIndex, NumberOfSections, Uintn) ==
  LessEq(ToLimbs(Index, Uintn),
         Add(ToLimbs(SectionIndex, Uintn), Sub(U32(NumberOfSections), U32(1), 4), Uintn))

\* Lines 397-411: the call and the first segment.
CallMachoGetSectionByIndex64 ==
  /\ macho.pc = "idle"
  /\ \E Index \in MachoIndexes :
       macho' = [macho EXCEPT !.fn = "MachoGetSectionByIndex64", !.pc = "test",
                              !.Index = Index, !.SectionIndex = 0,
                              !.Segment = MachoGetFirstSegment64(macho)]
  /\ UNCHANGED <<hw, TSCFrequency, ARTFrequency, CPUFrequencyFromART, stack, cal,
                 art, orch, loc, ret, tpl, pmTimer, acc, returned>>

\* Lines 412-422: the condition and the body of the loop over the segments.
SectionByIndexTest ==
  /\ macho.fn = "MachoGetSectionByIndex64" /\ macho.pc = "test"
  /\ IF macho.Segment = 0
     THEN macho' = [macho EXCEPT !.pc = "done", !.Null = TRUE]
     ELSE LET Segment == macho.Commands[macho.Segment]
          IN  IF IndexInSegment(macho.Index, macho.SectionIndex,
                                Segment.NumberOfSections, macho.Uintn)
              THEN macho' = [macho EXCEPT !.pc = "done", !.Null = FALSE,
                                          !.ResultSegment = macho.Segment,
                                          !.ResultSection =
                                            macho.Index - macho.SectionIndex]
              ELSE macho' = [macho EXCEPT !.pc = "next",
                                          !.SectionIndex = @ + Segment.NumberOfSections]
  /\ UNCHANGED <<hw, TSCFrequency, ARTFrequency, CPUFrequencyFromART, stack, cal,
                 art, orch, loc, ret, tpl, pmTimer, acc, returned>>

\* Line 413
SectionByIndexNext ==
  /\ macho.fn = "MachoGetSectionByIndex64" /\ macho.pc = "next"
  /\ macho' = [macho EXCEPT !.pc = "test",
                            !.Segment = MachoGetNextSegment64(macho, macho.Segment)]
  /\ UNCHANGED <<hw, TSCFrequency, ARTFrequency, CPUFrequencyFromART, stack, cal,
                 art, orch, loc, ret, tpl, pmTimer, acc, returned>>

\* Lines 416, 422, 458, 466: the caller has the result; the image is as before.
SectionsReturn ==
  /\ macho.pc = "done"
  /\ macho' = [SectionsNone EXCEPT !.Signature = macho.Signature,
                                   !.Commands = macho.Commands,
                                   !.Uintn = macho.Uintn]
  /\ UNCHANGED <<hw, TSCFrequency, ARTFrequency, CPUFrequencyFromART, stack, cal,
                 art, orch, loc, ret, tpl, pmTimer, acc, returned>>

NextSections ==
  \/ CallMachoGetSectionByAddress64
  \/ SectionByAddressTest
  \/ SectionByAddressNext
  \/ CallMachoGetSectionByIndex64
  \/ SectionByIndexTest
  \/ SectionByIndexNext
  \/ SectionsReturn

SpecSections == InitSections /\ [][NextSections]_vars


(***************************************************************************)
(* Properties.                                                             *)
(***************************************************************************)
Calibrator == "InternalCalculateTSCFromPMTimer"

Resolver == "InternalCalcluateARTFrequencyIntel"

Orchestrator == "OcGetTSCFrequency"

\* C1: OcGetTSCFrequency returns the derived base frequency the resolver has
\* returned whenever that is not 0, also when the PM timer frequency is
\* cached and differs; otherwise it returns what a calibrator call with
\* Recalculate = FALSE has returned; so it returns 0 only when both are 0.
C1_OrchestratorReturnsARTBaseElsePMTimer ==
  At(Orchestrator, "done") =>
    /\ orch.FromART = CPUFrequencyFromART
    /\ IF ~IsZero(orch.FromART)
       THEN /\ orch.CPUFrequency = orch.FromART
            /\ ret.fn = Resolver
       ELSE /\ ret.fn = Calibrator
            /\ ~ret.Recalculate
            /\ orch.CPUFrequency = ret.Value
            /\ ret.Value = TSCFrequency
    /\ (IsZero(orch.CPUFrequency) => IsZero(orch.FromART) /\ IsZero(TSCFrequency))

\* C1 witness: the orchestrator returns the resolver's base frequency while
\* a different, non-zero PM timer frequency is cached.
C1_Witness ==
  /\ At(Orchestrator, "done")
  /\ ~IsZero(orch.FromART)
  /\ ~IsZero(TSCFrequency)
  /\ TSCFrequency # orch.FromART
  /\ orch.CPUFrequency = orch.FromART

\* C2: a calibrator call with Recalculate = FALSE that finds a non-zero
\* cached frequency returns it at once: the cache keeps its value and no
\* timer is located, no I/O port read, no stall made, no TPL changed.
C2_CachedCalibrationIsFree ==
  [][ /\ (At(Calibrator, "entry") /\ ~Top.Recalculate /\ ~IsZero(TSCFrequency))
           => /\ At(Calibrator, "done")'
              /\ cal'.Path = "cached"
              /\ cal'.Cached = TSCFrequency
              /\ UNCHANGED <<TSCFrequency, acc, tpl, pmTimer>>
      /\ (At(Calibrator, "done") /\ cal.Path = "cached")
           => /\ TSCFrequency = cal.Cached
              /\ UNCHANGED <<TSCFrequency, tpl>>
              /\ (stack' # <<>> => ret'.Value = cal.Cached /\ UNCHANGED <<acc, pmTimer>>)
    ]_vars

\* C2 witness: a call with Recalculate = FALSE is about to return the
\* cached non-zero frequency.
C2_Witness ==
  /\ At(Calibrator, "done")
  /\ ~Top.Recalculate
  /\ cal.Path = "cached"
  /\ ~IsZero(TSCFrequency)

\* C3: a calibrator call that measures anew (Recalculate = TRUE or the cache
\* at 0) ends with the cache at 0 and returns 0 when the locator returns
\* address 0 or when the two readings around the stall are equal, whatever
\* was cached before.
C3_NoTimerOrStuckTimerGivesZero ==
  [][ /\ (At(Calibrator, "entry") /\ (Top.Recalculate \/ IsZero(TSCFrequency)))
           => /\ IsZero(TSCFrequency')
              /\ IF InternalGetPmTimerAddr(hw).TimerAddr = 0
                 THEN At(Calibrator, "done")' /\ cal'.Path = "notimer"
                 ELSE At(Calibrator, "sanity")'
      /\ (At(Calibrator, "sanity") /\ cal'.AcpiTick0 = cal'.AcpiTick1)
           => /\ At(Calibrator, "done")'
              /\ cal'.Path = "stuck"
              /\ IsZero(TSCFrequency')
      /\ (At(Calibrator, "done") /\ cal.Path \in {"notimer", "stuck"})
           => /\ IsZero(TSCFrequency)
              /\ IsZero(TSCFrequency')
              /\ (stack' # <<>> => IsZero(ret'.Value))
    ]_vars

\* C3 witness: a forced call has cleared a non-zero cached frequency, found
\* the timer not advancing, and returns 0.
C3_Witness ==
  /\ At(Calibrator, "done")
  /\ Top.Recalculate
  /\ cal.Dropped
  /\ cal.Path = "stuck"
  /\ IsZero(TSCFrequency)


\* The hardware makes the resolver give up at line 267.
Unsupported == hw.CpuVendor # CPUID_VENDOR_INTEL \/ hw.MaxId < CPUID_TIME_STAMP_COUNTER

\* The ratio leaf has a numerator and a denominator.
HasRatio == hw.Denominator # 0 /\ hw.Numerator # 0

\* crystal * numerator / denominator for the cached crystal frequency
RatioDerivedBase ==
  MultThenDivU64x64x32(ARTFrequency, U32(hw.Numerator), U32(hw.Denominator))

C5_CachedPairAndJointInvalidation ==
  [][ /\ (At(Resolver, "entry") /\ ~Top.Recalculate /\ ~IsZero(ARTFrequency))
           => /\ At(Resolver, "done")'
              /\ art'.Path = "cached"
              /\ art'.CachedART = ARTFrequency
              /\ art'.CachedCPU = CPUFrequencyFromART
              /\ UNCHANGED <<ARTFrequency, CPUFrequencyFromART, TSCFrequency, acc, tpl>>
      /\ (At(Resolver, "done") /\ art.Path = "cached")
           => /\ ARTFrequency = art.CachedART
              /\ CPUFrequencyFromART = art.CachedCPU
              /\ UNCHANGED <<ARTFrequency, CPUFrequencyFromART, TSCFrequency, tpl>>
              /\ (stack' # <<>> => /\ ret'.Value = art.CachedART
                                   /\ ret'.CPUFrequency = art.CachedCPU
                                   /\ UNCHANGED acc)
      /\ (At(Resolver, "entry") /\ Top.Recalculate)
           => /\ At(Resolver, "resolve")'
              /\ IsZero(ARTFrequency')
              /\ IsZero(CPUFrequencyFromART')
      /\ At(Resolver, "resolve")
           => IsZero(ARTFrequency) /\ IsZero(CPUFrequencyFromART)
    ]_vars

\* C5 witness: a call with Recalculate = FALSE is about to return the cached
\* pair.
C5_Witness ==
  /\ At(Resolver, "done")
  /\ ~Top.Recalculate
  /\ art.Path = "cached"
  /\ ~IsZero(ARTFrequency)
  /\ ~IsZero(CPUFrequencyFromART)

\* C6: where the vendor is not Intel or the maximum leaf is below the ratio
\* leaf, both statics stay 0, the resolver returns (0, 0), the TSC adjust
\* MSR is never read and the resolver never calls the calibrator.
C6_UnsupportedGivesZeroPair ==
  Unsupported =>
    /\ IsZero(ARTFrequency)
    /\ IsZero(CPUFrequencyFromART)
    /\ "msr" \notin acc
    /\ "calibrator" \notin acc
    /\ (At(Resolver, "done") => art.Path = "unsupported")
    /\ (ret.fn = Resolver => IsZero(ret.Value) /\ IsZero(ret.CPUFrequency))

\* C6 witness: a forced call on an Intel CPU without the ratio leaf returns.
C6_Witness ==
  /\ At(Resolver, "done")
  /\ Top.Recalculate
  /\ hw.CpuVendor = CPUID_VENDOR_INTEL
  /\ hw.MaxId < CPUID_TIME_STAMP_COUNTER
  /\ IsZero(ARTFrequency)


\* The processor frequency leaf is supported and reports a base frequency.
HasReportedBase ==
  hw.MaxId >= CPUID_PROCESSOR_FREQUENCY /\ hw.ProcessorBaseFrequency # 0

\* The reported base frequency in Hz.
ReportedBaseHz == Mul(U64(hw.ProcessorBaseFrequency), U32(1000000), 8)

\* C7 as claimed: whenever the ratio leaf has numerator and denominator and
\* the processor frequency leaf reports a base frequency, the resolver
\* returns that frequency * 1,000,000, wherever the crystal frequency came
\* from.
C7_Original_ReportedBaseAlwaysWins ==
  (At(Resolver, "done") /\ ~Unsupported /\ HasRatio /\ HasReportedBase)
    => CPUFrequencyFromART = ReportedBaseHz

\* C7 as amended: the resolver returns the reported base frequency *
\* 1,000,000 when the crystal frequency was back-derived from a calibrator
\* result (a non-zero quotient); when the crystal frequency came from the
\* ratio leaf, the model table or the 24 MHz default it returns crystal *
\* numerator / denominator, also where the processor frequency leaf reports
\* a base frequency.
C7_ReportedBaseOnlyWhenBackDerived ==
  (At(Resolver, "done") /\ ~Unsupported /\ HasRatio)
    => /\ (art.Path = "backderived" /\ HasReportedBase)
            => CPUFrequencyFromART = ReportedBaseHz
       /\ art.Path \in {"queried", "known", "default"}
            => CPUFrequencyFromART = RatioDerivedBase
       /\ art.Path = "backderived"
            <=> /\ hw.ARTFrequencyEcx = 0
                /\ hw.MaxId >= CPUID_PROCESSOR_FREQUENCY
                /\ "calibrator" \in acc
                /\ ~IsZero(art.CPUFrequencyFromTSC)
                /\ art.Path # "cached"
                /\ ~IsZero(Div(Mul(Ext(art.CPUFrequencyFromTSC, 12),
                                   U32(hw.Denominator), 12), U32(hw.Numerator)))

\* C7 witness: a back-derived crystal frequency and the reported base
\* frequency returned, different from the ratio-derived one.
C7_Witness ==
  /\ At(Resolver, "done")
  /\ art.Path = "backderived"
  /\ HasReportedBase
  /\ CPUFrequencyFromART = ReportedBaseHz
  /\ CPUFrequencyFromART # RatioDerivedBase

\* The model of CPUID leaf 1, as line 283 combines it.
ModelCode == hw.Model + 16 * hw.ExtendedModelId

\* C8: with no crystal frequency in the ratio leaf, Skylake and Kaby Lake
\* models resolve to 24,000,000 Hz, Denverton to 25,000,000 Hz, Goldmont to
\* 19,200,000 Hz; a model outside the table whose crystal frequency cannot
\* be back-derived (no processor frequency leaf, or TSC frequency *
\* denominator / numerator is 0) resolves to 24,000,000 Hz if numerator and
\* denominator are non-zero and to 0 if either is zero.
C8_ModelTableAndDefault ==
  (At(Resolver, "done") /\ ~Unsupported /\ hw.ARTFrequencyEcx = 0)
    => /\ ModelCode \in {78, 94, 142, 158} => ARTFrequency = U64(24000000)
       /\ ModelCode = 95 => ARTFrequency = U64(25000000)
       /\ ModelCode = 92 => ARTFrequency = U64(19200000)
       /\ (ModelCode \notin {78, 94, 142, 158, 95, 92} /\ art.Path # "cached")
            => /\ (HasRatio /\ (hw.MaxId < CPUID_PROCESSOR_FREQUENCY
                                  \/ IsZero(BackDerivedART(art.CPUFrequencyFromTSC, hw))))
                    => ARTFrequency = U64(24000000) /\ art.Path = "default"
               /\ ~HasRatio => IsZero(ARTFrequency)
       /\ (ModelCode \notin {78, 94, 142, 158, 95, 92} /\ art.Path = "cached")
            => ARTFrequency = art.CachedART /\ ~IsZero(ARTFrequency)

\* C8 witness: an unknown model, the calibrator called and returning 0, and
\* the default crystal frequency.
C8_Witness ==
  /\ At(Resolver, "done")
  /\ ~Unsupported
  /\ hw.ARTFrequencyEcx = 0
  /\ ModelCode = 60
  /\ HasRatio
  /\ "calibrator" \in acc
  /\ IsZero(art.CPUFrequencyFromTSC)
  /\ ARTFrequency = U64(24000000)

\* C9 as claimed: after every read of the calibration loop AcpiTicksDelta is
\* the number of ticks the timer has advanced since the start reading: 400
\* from 100 to 500, 0x20 from 0x00FFFFF0 to 0x10 on a 24-bit timer and from
\* 0xFFFFFFF0 to 0x10 on a 32-bit timer.
C9_Claim_DeltaIsElapsedTicks ==
  (At(Calibrator, "loop") \/ At(Calibrator, "finish")) /\ cal.Reads > 0
    => cal.AcpiTicksDelta = U32(cal.Elapsed)

\* C10 as claimed: the measured frequency is (Tsc1 - Tsc0) * 3,579,545 /
\* AcpiTicksDelta over a 96-bit product, the quotient truncated or rounded
\* to nearest.
C10_Claim_FrequencyWithoutOverflow ==
  (At(Calibrator, "done") /\ cal.Path = "measured")
    => LET Product == Mul(Ext(Sub(cal.Tsc1, cal.Tsc0, 8), 12), U32(3579545), 12)
           Floor   == Div(Product, cal.AcpiTicksDelta)
           Round   == Div(Add(Add(Product, Product, 13), cal.AcpiTicksDelta, 13),
                          Add(cal.AcpiTicksDelta, cal.AcpiTicksDelta, 5))
       IN  \/ Ext(TSCFrequency, 12) = Floor
           \/ Ext(TSCFrequency, 13) = Round

Locator == "InternalGetPmTimerAddr"

LegacyEnabled(h) ==
  h.LpcVendorId = V_ICH_PCI_VENDOR_ID /\ (h.LpcAcpiCntl \div 128) % 2 = 1

PmcOffersTimer(h) ==
  /\ h.PmcVendorId = V_ICH_PCI_VENDOR_ID
  /\ ((h.PmcAcpiCntl \div 128) % 2 = 1 \/ h.PmcBar2Base % 2 = 1)

PmcRegisters == {"PmcVendorId", "PmcAcpiCntl", "PmcAcpiBase", "PmcBar2Base"}

\* C11: the locator is first-match-wins.  With the legacy function's vendor
\* ID matching and its ACPI enable bit set it returns (ACPI base register &
\* 0xFF80) + 8 tagged "LPC" whatever the PMC function and the CPU vendor
\* are; it reads PMC registers only when the legacy function matches with
\* the enable bit clear, and the AMD MMIO register only when the Intel probe
\* has left the address 0.
C11_LocatorFirstMatchWins ==
  At(Locator, "done") =>
    /\ LegacyEnabled(hw) =>
          /\ loc.TimerAddr = (hw.LpcAcpiBase \div 128) * 128 + 8
          /\ loc.Type = "LPC"
          /\ loc.Probed = {"LpcVendorId", "LpcAcpiCntl", "LpcAcpiBase"}
    /\ loc.Probed \cap PmcRegisters # {} =>
          /\ hw.LpcVendorId = V_ICH_PCI_VENDOR_ID
          /\ (hw.LpcAcpiCntl \div 128) % 2 = 0
    /\ "AmdPmTmrBlock" \in loc.Probed =>
          /\ ~LegacyEnabled(hw)
          /\ ~(hw.LpcVendorId = V_ICH_PCI_VENDOR_ID /\ PmcOffersTimer(hw))
          /\ loc.Type = "AMD"

\* The legacy function and the PMC function both offer a timer, the CPU is
\* AMD, and the locator has answered.
C11_Witness ==
  /\ At(Locator, "done")
  /\ LegacyEnabled(hw) /\ PmcOffersTimer(hw)
  /\ (hw.PmcAcpiCntl \div 128) % 2 = 1
  /\ hw.CpuVendor = CPUID_VENDOR_AMD
  /\ loc.Type = "LPC"

\* No probe yields a timer address: no enabled legacy function, no PMC
\* function with a usable register layout, and the CPU is not AMD.
NoProbeYields(h) ==
  /\ ~LegacyEnabled(h)
  /\ ~(h.LpcVendorId = V_ICH_PCI_VENDOR_ID /\ PmcOffersTimer(h))
  /\ h.CpuVendor # CPUID_VENDOR_AMD

\* C12 as stated: when no probe yields a timer address the locator returns
\* address 0 and the tag written is "Failure".
C12_Original_NoTimerTaggedFailure ==
  At(Locator, "done") /\ NoProbeYields(hw) =>
    loc.TimerAddr = 0 /\ loc.Type = "Failure"

\* C12: when no probe yields a timer address the locator returns address 0;
\* the tag is "Failure" if the legacy function's vendor ID is not
\* recognized, "Unknown INTEL" if it is recognized with ACPI disabled and
\* the PMC function's vendor ID is not recognized, and "Invalid INTEL PMC"
\* if the PMC function is recognized without a usable register layout.
C12_NoTimerAddressZeroAndTag ==
  At(Locator, "done") /\ NoProbeYields(hw) =>
    /\ loc.TimerAddr = 0
    /\ loc.Type = IF hw.LpcVendorId # V_ICH_PCI_VENDOR_ID THEN "Failure"
                  ELSE IF hw.PmcVendorId # V_ICH_PCI_VENDOR_ID THEN "Unknown INTEL"
                  ELSE "Invalid INTEL PMC"

\* The chipset is recognized without a usable register layout, the CPU is
\* not AMD, and the locator has answered.
C12_Witness ==
  /\ At(Locator, "done")
  /\ NoProbeYields(hw)
  /\ hw.LpcVendorId = V_ICH_PCI_VENDOR_ID
  /\ hw.PmcVendorId = V_ICH_PCI_VENDOR_ID
  /\ loc.TimerAddr = 0
  /\ loc.Type = "Invalid INTEL PMC"

\* The positions of the calibrator at which the next step reads the start
\* pair, reads the timer in the loop, or reads the end counter.
MeasuringPcs == {"start", "loop", "finish"}

\* C13: the start pair, every loop read and the end counter read of a
\* calibrator call are taken at TPL_HIGH_LEVEL; the priority is raised only
\* by the calibrator, after a timer has been located and two sanity
\* readings have differed; it is lowered only by RestoreTPL of the saved
\* level; and the call returns at the priority it began at, having made as
\* many RestoreTPL calls as RaiseTPL calls, at most one of each.
C13_CriticalSectionBracketsMeasurement ==
  /\ [](stack # <<>> /\ Top.fn = Calibrator =>
          /\ Top.pc \in MeasuringPcs \cup {"restore"} =>
                tpl = TPL_HIGH_LEVEL /\ cal.Raises = 1 /\ cal.Restores = 0
          /\ Top.pc = "done" =>
                /\ tpl = cal.EntryTpl
                /\ cal.Raises = cal.Restores
                /\ cal.Raises = IF cal.Path = "measured" THEN 1 ELSE 0)
  /\ [][ /\ (tpl' # tpl) =>
              \/ /\ At(Calibrator, "raise") /\ At(Calibrator, "start")'
                 /\ tpl' = TPL_HIGH_LEVEL
                 /\ cal.TimerAddr # 0
                 /\ cal.AcpiTick0 # cal.AcpiTick1
                 /\ cal'.PrevTpl = cal.EntryTpl
              \/ /\ At(Calibrator, "restore") /\ At(Calibrator, "done")'
                 /\ tpl' = cal.PrevTpl
         /\ (stack # <<>> /\ stack' # <<>>
               /\ (cal'.AcpiTick0 # cal.AcpiTick0 \/ cal'.Tsc0 # cal.Tsc0
                     \/ cal'.Tsc1 # cal.Tsc1 \/ cal'.Reads # cal.Reads)
               /\ ~At(Calibrator, "entry") /\ ~At(Calibrator, "sanity"))
              => tpl = TPL_HIGH_LEVEL /\ tpl' = TPL_HIGH_LEVEL ]_vars

\* A call that began at TPL_CALLBACK has measured and returns at
\* TPL_CALLBACK.
C13_Witness ==
  /\ At(Calibrator, "done")
  /\ cal.Path = "measured"
  /\ cal.EntryTpl = TPL_CALLBACK
  /\ cal.Raises = 1 /\ cal.Restores = 1
  /\ tpl = TPL_CALLBACK

\* C14 as stated: a call with Recalculate = FALSE made from within a DEBUG
\* statement of a resolver call never observes a partially written cache:
\* a nested resolver call has returned the pair the outer call returns and
\* caches, and a nested OcGetTSCFrequency call has returned that pair's
\* derived base frequency when it is not 0.
C14_Claim_NestedCallSeesFinalPair ==
  At(Resolver, "done") =>
    \A i \in DOMAIN art.Nested :
      /\ art.Nested[i].fn = Resolver =>
            /\ art.Nested[i].Value = ARTFrequency
            /\ art.Nested[i].CPUFrequency = CPUFrequencyFromART
      /\ (art.Nested[i].fn = Orchestrator /\ ~IsZero(CPUFrequencyFromART)) =>
            art.Nested[i].Value = CPUFrequencyFromART

\* C15: a calibrator call that has entered the critical section leaves the
\* loop, lowers the priority, reaches its return and returns; when the loop
\* is left the accumulated delta is at least the target of 357,954 ticks,
\* so that the divisor of the frequency is not 0.  (Each read of the model
\* finds the timer advanced by at most the calibration window, which is
\* less than a register wrap minus the target.)
C15_LoopExitsWithDeltaAtLeastTarget ==
  /\ [](stack # <<>> /\ Top.fn = Calibrator /\ Top.pc \in {"finish", "restore"} =>
          /\ LessEq(U32(357954), cal.AcpiTicksDelta)
          /\ ~IsZero(cal.AcpiTicksDelta)
          /\ cal.Reads >= 1)
  /\ [](cal.Path = "measured" => ~IsZero(cal.AcpiTicksDelta))
  /\ At(Calibrator, "start") ~> (At(Calibrator, "done") /\ cal.Path = "measured")
  /\ At(Calibrator, "done") ~> (stack = <<>>)

\* The loop has read the timer more than once, the delta of the first read
\* being below the target, and has been left.
C15_Witness ==
  /\ At(Calibrator, "finish")
  /\ cal.Reads > 1
  /\ cal.Elapsed > 357954
  /\ tpl = TPL_HIGH_LEVEL

\* The model has a case in the switch of lines 287-300.
InModelTable(h) == ~IsZero(KnownModelART(CpuModel(h), Zero64))

\* The four conditions under which the crystal frequency is back-derived.
CalibratorDue(h) ==
  /\ h.ARTFrequencyEcx = 0
  /\ ~InModelTable(h)
  /\ h.Numerator > 0 /\ h.Denominator > 0
  /\ h.MaxId >= CPUID_PROCESSOR_FREQUENCY

\* The timed accesses: those of the calibrator and of the timer locator.
TimedAccesses == {"locate", "io", "stall", "tpl", "tsc"}

\* C16: the resolver calls the calibrator only if the ratio leaf reports
\* no crystal frequency, the model is not in the table, numerator and
\* denominator are non-zero and the processor frequency leaf is supported;
\* otherwise no step of the resolver, whatever its Recalculate flag, makes a
\* timed access or changes the calibrator's cached frequency.  The call
\* passes the resolver's Recalculate flag, and the crystal frequency stored
\* from it is TSC frequency * denominator / numerator (which the default
\* step that follows replaces by 24 MHz if it is 0).
C16_CalibratorOnlyWhenCrystalUnreported ==
  /\ [](\A k \in 2..Len(stack) :
          stack[k].fn = Calibrator /\ stack[k - 1].fn = Resolver
            => /\ CalibratorDue(hw)
               /\ stack[k - 1].pc = "derive"
               /\ stack[k].Recalculate = stack[k - 1].Recalculate)
  /\ []("calibrator" \in acc => CalibratorDue(hw))
  /\ [][ /\ (stack # <<>> /\ Top.fn = Resolver)
              => /\ TSCFrequency' = TSCFrequency
                 /\ (acc' \ acc) \cap TimedAccesses = {}
         /\ (stack # <<>> /\ Top.fn = Resolver /\ ~CalibratorDue(hw))
              => (stack' = <<>> \/ Len(stack') = Len(stack) - 1 \/ Top'.fn = Resolver)
         /\ At(Resolver, "derive")
              => /\ ret.fn = Calibrator
                 /\ ret.Recalculate = Top.Recalculate
                 /\ ret.Value = TSCFrequency
                 /\ art'.CPUFrequencyFromTSC = TSCFrequency
                 /\ ARTFrequency' =
                      DefaultedART(MultThenDivU64x64x32(TSCFrequency, U32(hw.Denominator),
                                                        U32(hw.Numerator)))
       ]_vars

\* C16 witness: a resolver call with Recalculate = TRUE has resolved the
\* pair without the calibrator, on a processor without the processor
\* frequency leaf, while a PM timer frequency is cached.
C16_Witness ==
  /\ stack # <<>> /\ stack[1].fn = Resolver /\ stack[1].Recalculate
  /\ At(Resolver, "done")
  /\ art.Path = "default"
  /\ ~IsZero(TSCFrequency)
  /\ "calibrator" \notin acc

\* C16 witness of the other case: the crystal frequency has been
\* back-derived from a measurement made with the resolver's flag.
C16_WitnessDerived ==
  /\ At(Resolver, "reported")
  /\ Top.Recalculate
  /\ art.Path = "backderived"
  /\ cal.Path = "measured"
  /\ ARTFrequency = BackDerivedART(TSCFrequency, hw)

\* The crystal frequency that the ratio leaf or the model table gives, 0 if
\* neither does.
DirectCrystal(h) ==
  IF h.ARTFrequencyEcx > 0 THEN U64(h.ARTFrequencyEcx)
  ELSE KnownModelART(CpuModel(h), Zero64)

\* The ratio leaf is there and its denominator or numerator is 0.
RatioAbsent(h) ==
  /\ h.CpuVendor = CPUID_VENDOR_INTEL /\ h.MaxId >= CPUID_TIME_STAMP_COUNTER
  /\ (h.Denominator = 0 \/ h.Numerator = 0)

\* C17: on a supported processor whose ratio leaf has a zero denominator or
\* numerator the resolver returns and caches (crystal, 0), crystal being
\* the reported or model-table value or 0: the 24 MHz default is not
\* applied and the resolver does not call the calibrator; OcGetTSCFrequency
\* then returns what the PM timer calibration has returned.
C17_NoRatioGivesCrystalAndZeroBase ==
  /\ [](RatioAbsent(hw) =>
          /\ IsZero(CPUFrequencyFromART)
          /\ ARTFrequency \in {Zero64, DirectCrystal(hw)}
          /\ "calibrator" \notin acc
          /\ art.Path \in {"none", "cached", "known", "queried", "noratio"}
          /\ (At(Resolver, "done") =>
                /\ ARTFrequency = DirectCrystal(hw)
                /\ art.Path \in {"noratio", "cached"})
          /\ (At(Orchestrator, "done") =>
                /\ orch.Path = "pmtimer"
                /\ ret.fn = Calibrator
                /\ orch.CPUFrequency = ret.Value
                /\ ret.Value = TSCFrequency))
  /\ [][RatioAbsent(hw) /\ At(Resolver, "done") =>
          /\ UNCHANGED <<ARTFrequency, CPUFrequencyFromART>>
          /\ (stack' # <<>> =>
                /\ ret'.fn = Resolver
                /\ ret'.Value = DirectCrystal(hw)
                /\ IsZero(ret'.CPUFrequency))
      ]_vars

\* C17 witness: OcGetTSCFrequency is about to return a measured PM timer
\* frequency on a processor that reports its crystal frequency and no ratio.
C17_Witness ==
  /\ RatioAbsent(hw)
  /\ At(Orchestrator, "done")
  /\ ARTFrequency = U64(38400000)
  /\ IsZero(CPUFrequencyFromART)
  /\ cal.Path = "measured"
  /\ ~IsZero(orch.CPUFrequency)

\* C18: while no call passes Recalculate = TRUE, once OcGetTSCFrequency has
\* returned a non-zero value every later call of it returns that value,
\* whatever the PM timer measurements in between yield.
C18_NonZeroResultIsStable ==
  At(Orchestrator, "done") /\ ~IsZero(returned) => orch.CPUFrequency = returned

\* C18 witness: a later call of OcGetTSCFrequency is about to return the PM
\* timer frequency that an earlier call has returned.
C18_Witness ==
  /\ At(Orchestrator, "done")
  /\ ~IsZero(returned)
  /\ orch.Path = "pmtimer"
  /\ cal.Path = "cached"
  /\ orch.CPUFrequency = returned

\* C19: both ASSERTs of the resolver hold in every execution: with a
\* non-zero numerator and denominator the crystal frequency is greater than
\* 0 after the default step and the base frequency is greater than 0 after
\* the derivation step, whatever the leaves report.
C19_Claim_BothAssertionsHold ==
  /\ art.Asserted[1]
  /\ art.Asserted[2]
  /\ (At(Resolver, "logged") => ~IsZero(ARTFrequency) /\ ~IsZero(CPUFrequencyFromART))

\* C20: for every image and every LoadCommand at or after the first load
\* command MachoGetNextCommand64 terminates, and what it returns is NULL or
\* a command of the requested type that comes after LoadCommand and lies,
\* header and all, within the load-command area; also when a command of
\* the image has a Size of 0 or one that exceeds the rest of the area.
\* (A walk that terminates advances with every iteration, so it makes no
\* more iterations than the area has words.)
C20_Claim_NextCommandTerminatesWithinArea ==
  /\ macho.Iterations <= macho.CommandsSize
  /\ (macho.pc = "done" /\ ~macho.Null =>
        /\ CommandType(macho, macho.Result) = macho.LoadCommandType
        /\ macho.Result > macho.LoadCommand
        /\ macho.Result >= 0
        /\ macho.Result + MachLoadCommandWords <= macho.CommandsSize
        /\ macho.Result + CommandSize(macho, macho.Result) <= macho.CommandsSize)

\* The segments of the image, by place.
SegmentsOf(m) ==
  {k \in 1..Len(m.Commands) : m.Commands[k].Type = MACH_LOAD_COMMAND_SEGMENT_64}

\* A section that holds the address exists in a segment whose address
\* range holds it.
SectionHoldingExists(m, Address) ==
  \E k \in SegmentsOf(m) :
    /\ m.Commands[k].VirtualAddress <= Address
    /\ Address < m.Commands[k].VirtualAddress + m.Commands[k].Size
    /\ \E i \in 1..m.Commands[k].NumberOfSections :
         /\ m.Commands[k].Sections[i].Address <= Address
         /\ Address < m.Commands[k].Sections[i].Address + m.Commands[k].Sections[i].Size

\* C21: MachoGetSectionByAddress64 returns a section S of a segment of the
\* image with S.Address <= Address < S.Address + S.Size whenever such a
\* section exists in a segment whose address range holds Address, and it
\* returns NULL only when there is no such section.
C21_Claim_SectionByAddressFindsSection ==
  macho.pc = "done" /\ macho.fn = "MachoGetSectionByAddress64" =>
    /\ (SectionHoldingExists(macho, macho.Address) => ~macho.Null)
    /\ (~macho.Null =>
          /\ macho.ResultSegment \in SegmentsOf(macho)
          /\ macho.ResultSection < macho.Commands[macho.ResultSegment].NumberOfSections
          /\ LET S == macho.Commands[macho.ResultSegment].Sections[macho.ResultSection + 1]
             IN  S.Address <= macho.Address /\ macho.Address < S.Address + S.Size)

\* The sections of the segments before place k.
RECURSIVE SectionsBefore(_, _)
SectionsBefore(m, k) ==
  IF k <= 1 THEN 0
  ELSE SectionsBefore(m, k - 1)
         + (IF k - 1 \in SegmentsOf(m) THEN m.Commands[k - 1].NumberOfSections ELSE 0)

\* C22: MachoGetSectionByIndex64 returns the Index-th section, the sections
\* of the segments counted in the order of the load commands, and NULL
\* when Index is at least the number of all sections; what it returns is
\* an element of a segment's own Sections array, also when the image has a
\* segment without sections.
C22_Claim_SectionByIndexCountsSections ==
  macho.pc = "done" /\ macho.fn = "MachoGetSectionByIndex64" =>
    /\ (macho.Index >= SectionsBefore(macho, Len(macho.Commands) + 1) => macho.Null)
    /\ (macho.Index < SectionsBefore(macho, Len(macho.Commands) + 1) => ~macho.Null)
    /\ (~macho.Null =>
          /\ macho.ResultSegment \in SegmentsOf(macho)
          /\ macho.ResultSection < macho.Commands[macho.ResultSegment].NumberOfSections
          /\ SectionsBefore(macho, macho.ResultSegment) + macho.ResultSection = macho.Index)

====
